---- MODULE Spec2Model ----
(***************************************************************************)
(* Model of the Markdown-to-HTML core of the static site generator:        *)
(* the HTML node model (htmlnode.py), the inline span tokenizer and the    *)
(* block classifier / builders / document assembler (textnode.py).         *)
(*                                                                         *)
(* A Python str is a sequence of one-character strings.  Python's None is  *)
(* a sentinel of the same shape as the values it stands in for, so that    *)
(* every comparison is between values of one shape.  A call that may raise *)
(* returns a tuple <<raised, value, exception type, message>>.  Objects are *)
(* tuples of their fields, read through the accessors defined with them.   *)
(***************************************************************************)
EXTENDS Integers, Sequences, FiniteSets, TLC

VARIABLES
    node,        \* the HTMLNode object the node-model operations act on
    node_op,     \* the last node-model operation: "none", "init", "assign",
                 \* "props_to_html", "to_html"
    node_args,   \* the arguments of the last constructor call
    node_res,    \* the outcome of the last operation (a call record)
    tok_nodes,   \* the list of TextNode the tokenizer stages are applied to
    tok_call,    \* the last tokenizer call: <<function, delimiter, text_type>>
    tok_res,     \* the outcome of that call (a call record)
    markdown,    \* the document given to markdown_to_html_node
    blocks,      \* markdown_to_html_node: the blocks of the document
    block_nodes, \* markdown_to_html_node: the nodes built so far
    doc_pc,      \* markdown_to_html_node: "start", "loop", "done", then "rendered"
    fs,          \* the file system: the entries under the current directory
    stdout,      \* what print has written, line by line
    entry,       \* the function of main.py that was called
    argv,        \* sys.argv
    site_pc,     \* main, clear_and_copy_directory, generate_pages_recursive:
                 \* "main", "clear", "copy", "generate", "check", "walk", then
                 \* "returned"; "raised" when an exception left the function
    site_res,    \* the outcome of the function called (a call record)
    src,         \* clear_and_copy_directory: the directory to copy
    dst,         \* clear_and_copy_directory: the directory to clear
    dir_path_content, \* generate_pages_recursive: the directory to walk
    dest_dir_path,    \* generate_pages_recursive: the directory of the pages
    walk_dirs,   \* os.walk: the directories still to list, the next one first
    root,        \* os.walk: the directory listed last
    files,       \* the files of root the loop has not yet come to
    from_path,   \* generate_page: the path of the Markdown file
    template_path, \* generate_page: the path of the template file
    dest_path,   \* generate_page: the path of the page
    basepath,    \* generate_page: the base path for URLs
    template,    \* generate_page: the text of the template file
    page_pc,     \* generate_page: "read_markdown", "read_template", "convert",
                 \* "fill", "mkdir", "open", "write", then "end"; "raised" when
                 \* an exception left the function
    title_res,   \* the outcome of extract_title (a call record)
    final_html,  \* generate_page: the page, None before it is made
    page_res,    \* the outcome of generate_page (a call record)
    doc_res,     \* the outcome of markdown_to_html_node (a call record)
    html_res,    \* the outcome of to_html() on the returned node
    blk,         \* the str the block functions are called on
    blk_call,    \* the last call on it: "none", "strip", "block_to_block_type",
                 \* "block_to_html_node"
    blk_res      \* the outcome of that call (a call record)

node_vars == <<node, node_op, node_args, node_res>>
tok_vars == <<tok_nodes, tok_call, tok_res>>
doc_vars == <<markdown, blocks, block_nodes, doc_pc, doc_res, html_res>>
blk_vars == <<blk, blk_call, blk_res>>
page_vars == <<fs, stdout, entry, argv, site_pc, site_res, src, dst, dir_path_content,
               dest_dir_path, walk_dirs, root, files, from_path, template_path, dest_path,
               basepath, template, page_pc, title_res, final_html, page_res>>

vars == <<node, node_op, node_args, node_res, tok_nodes, tok_call, tok_res,
          markdown, blocks, block_nodes, doc_pc, doc_res, html_res,
          blk, blk_call, blk_res,
          fs, stdout, entry, argv, site_pc, site_res, src, dst, dir_path_content,
          dest_dir_path, walk_dirs, root, files, from_path, template_path, dest_path,
          basepath, template, page_pc, title_res, final_html, page_res>>

-----------------------------------------------------------------------------
(* Bounds *)

\* greatest nesting depth of a node tree built in the node-model specification
MaxDepth == 3

\* greatest length of the enumerated texts given to the tokenizer
MaxTextLen == 4

\* greatest length of the enumerated documents
MaxDocLen == 4

-----------------------------------------------------------------------------
(* Python values *)

\* None where a str is expected (tag, value, url)
None == <<"None">>

\* None where an attribute dict is expected; a dict is a sequence of <<key, value>>
NoProps == << <<None, None>> >>

\* a call that returned v
Ok(v) == <<FALSE, v, "", <<>>>>

\* a call that raised ValueError(msg); msg is the message cut in pieces
Raise(msg) == <<TRUE, <<>>, "ValueError", msg>>

\* a call that raised an exception of another class
RaiseExc(exc, msg) == <<TRUE, <<>>, exc, msg>>

\* the character U+0060 (grave accent), which a TLA+ string cannot hold
Backtick == "BACKTICK"

\* names of tags and attributes
Str_p == <<"p">>
Str_div == <<"d", "i", "v">>
Str_href == <<"h", "r", "e", "f">>
Str_src == <<"s", "r", "c">>
Str_alt == <<"a", "l", "t">>

\* no call made yet
NoCall == <<FALSE, <<>>, "", <<>>>>

\* the parts of a call's outcome
Raised(r) == r[1]
Value(r) == r[2]
Exc(r) == r[3]
Error(r) == r[4]

\* a call followed by the rest of the function: an exception of the call
\* leaves the function, otherwise the rest runs with the value returned
Then(r, rest(_)) == IF Raised(r) THEN r ELSE rest(Value(r))

-----------------------------------------------------------------------------
(* str methods *)

Min(S) == CHOOSE m \in S : \A n \in S : m <= n

\* the characters str.strip() removes and \s matches: those for which
\* str.isspace() holds.  A character a TLA+ string cannot hold is written as
\* its code point, "U+000B" for the vertical tab, and is one character.
Whitespace ==
    { "\t", "\n", "U+000B", "\f", "\r", "U+001C", "U+001D", "U+001E",
      "U+001F", " ", "U+0085", "U+00A0", "U+1680", "U+2000", "U+2001",
      "U+2002", "U+2003", "U+2004", "U+2005", "U+2006", "U+2007", "U+2008",
      "U+2009", "U+200A", "U+2028", "U+2029", "U+202F", "U+205F", "U+3000" }

\* s.startswith(p)
startswith(s, p) == Len(p) <= Len(s) /\ SubSeq(s, 1, Len(p)) = p

\* s.endswith(p)
endswith(s, p) == Len(p) <= Len(s) /\ SubSeq(s, Len(s) - Len(p) + 1, Len(s)) = p

\* s.find(sub), 1-based; 0 when sub does not occur
find(s, sub) ==
    LET idx == {i \in 1..(Len(s) - Len(sub) + 1) : SubSeq(s, i, i + Len(sub) - 1) = sub}
    IN  IF idx = {} THEN 0 ELSE Min(idx)

\* s.lstrip(chars): drop the longest prefix made of characters of chars
lstrip_chars(s, chars) ==
    LET keep == {i \in 1..Len(s) : s[i] \notin chars}
    IN  IF keep = {} THEN <<>> ELSE SubSeq(s, Min(keep), Len(s))

\* s.strip()
strip(s) ==
    LET keep == {i \in 1..Len(s) : s[i] \notin Whitespace}
    IN  IF keep = {} THEN <<>>
        ELSE SubSeq(s, Min(keep), CHOOSE m \in keep : \A n \in keep : n <= m)

\* s.removeprefix(p)
removeprefix(s, p) == IF startswith(s, p) THEN SubSeq(s, Len(p) + 1, Len(s)) ELSE s

\* s.removesuffix(p)
removesuffix(s, p) ==
    IF Len(p) > 0 /\ endswith(s, p) THEN SubSeq(s, 1, Len(s) - Len(p)) ELSE s

\* s.split(sep) for a non-empty sep
RECURSIVE split(_, _)
split(s, sep) ==
    LET i == find(s, sep)
    IN  IF i = 0 THEN <<s>>
        ELSE <<SubSeq(s, 1, i - 1)>> \o split(SubSeq(s, i + Len(sep), Len(s)), sep)

\* s.split(sep, 1)
split1(s, sep) ==
    LET i == find(s, sep)
    IN  IF i = 0 THEN <<s>>
        ELSE <<SubSeq(s, 1, i - 1), SubSeq(s, i + Len(sep), Len(s))>>

\* sep.join(parts)
RECURSIVE join(_, _)
join(sep, parts) ==
    IF Len(parts) = 0 THEN <<>>
    ELSE IF Len(parts) = 1 THEN parts[1]
    ELSE parts[1] \o sep \o join(sep, Tail(parts))

-----------------------------------------------------------------------------
\* s.replace(old, new) for a non-empty old: every occurrence, left to right,
\* none overlapping another
RECURSIVE replace(_, _, _)
replace(s, old, new) ==
    IF find(s, old) = 0 THEN s
    ELSE SubSeq(s, 1, find(s, old) - 1) \o new
         \o replace(SubSeq(s, find(s, old) + Len(old), Len(s)), old, new)

-----------------------------------------------------------------------------
(* htmlnode.py *)

\* None where a list of child nodes is expected
NoChildren == << <<"None", None, None, <<>>, NoProps>> >>

\* the fields HTMLNode.__init__ stores
HTMLNode(cls, tag, value, children, props) ==
    <<cls, tag, value, children, props>>

\* the class of an object and its attributes
cls_of(n) == n[1]
tag_of(n) == n[2]
value_of(n) == n[3]
children_of(n) == n[4]
props_of(n) == n[5]

\* no object
NoNode == HTMLNode("None", None, None, <<>>, NoProps)

VOID_ELEMENTS ==
    { <<"a","r","e","a">>, <<"b","a","s","e">>, <<"b","r">>, <<"c","o","l">>,
      <<"e","m","b","e","d">>, <<"h","r">>, <<"i","m","g">>,
      <<"i","n","p","u","t">>, <<"l","i","n","k">>, <<"m","e","t","a">>,
      <<"p","a","r","a","m">>, <<"s","o","u","r","c","e">>,
      <<"t","r","a","c","k">>, <<"w","b","r">> }

\* f'{key}="{value}"' for each item of the dict, in insertion order
RECURSIVE props_items(_)
props_items(props) ==
    IF Len(props) = 0 THEN <<>>
    ELSE << props[1][1] \o <<"=", "\"">> \o props[1][2] \o <<"\"">> >>
         \o props_items(Tail(props))

\* props_to_html without the leading space
props_to_html_unspaced(props) ==
    IF props = NoProps \/ Len(props) = 0 THEN <<>>
    ELSE join(<<" ">>, props_items(props))

props_to_html(props) ==
    IF props = NoProps \/ Len(props) = 0 THEN <<>>
    ELSE <<" ">> \o join(<<" ">>, props_items(props))

HTMLNode_init(tag, value, children, props) ==
    Ok(HTMLNode("HTMLNode", tag, value, children, props))

\* to_html of the base class
HTMLNode_to_html(self) ==
    RaiseExc("NotImplementedError", <<"to_html method not implemented">>)

LeafNode_init(tag, value, props) ==
    IF value = None /\ tag \notin VOID_ELEMENTS
    THEN Raise(<<"LeafNode requires a value for non-void elements">>)
    ELSE Ok(HTMLNode("LeafNode", tag, value, NoChildren, props))

\* to_html without the check for a missing value
LeafNode_to_html_unchecked(self) ==
    IF tag_of(self) = None \/ Len(tag_of(self)) = 0
    THEN Ok(IF value_of(self) # None THEN value_of(self) ELSE <<>>)
    ELSE IF tag_of(self) \in VOID_ELEMENTS
    THEN Ok(<<"<">> \o tag_of(self) \o props_to_html(props_of(self)) \o <<">">>)
    ELSE Ok(<<"<">> \o tag_of(self) \o props_to_html(props_of(self)) \o <<">">>
            \o value_of(self) \o <<"<", "/">> \o tag_of(self) \o <<">">>)

\* to_html that closes every tagged element, void or not
LeafNode_to_html_closing(self) ==
    IF value_of(self) = None /\ tag_of(self) \notin VOID_ELEMENTS
    THEN Raise(<<"LeafNode requires a value for non-void elements">>)
    ELSE IF tag_of(self) = None \/ Len(tag_of(self)) = 0
    THEN Ok(IF value_of(self) # None THEN value_of(self) ELSE <<>>)
    ELSE Ok(<<"<">> \o tag_of(self) \o props_to_html(props_of(self)) \o <<">">>
            \o value_of(self) \o <<"<", "/">> \o tag_of(self) \o <<">">>)

LeafNode_to_html(self) ==
    IF value_of(self) = None /\ tag_of(self) \notin VOID_ELEMENTS
    THEN Raise(<<"LeafNode requires a value for non-void elements">>)
    ELSE IF tag_of(self) = None \/ Len(tag_of(self)) = 0
    THEN Ok(IF value_of(self) # None THEN value_of(self) ELSE <<>>)
    ELSE IF tag_of(self) \in VOID_ELEMENTS
    THEN Ok(<<"<">> \o tag_of(self) \o props_to_html(props_of(self)) \o <<">">>)
    ELSE Ok(<<"<">> \o tag_of(self) \o props_to_html(props_of(self)) \o <<">">>
            \o value_of(self) \o <<"<", "/">> \o tag_of(self) \o <<">">>)

ParentNode_init(tag, children, props) ==
    IF tag = None THEN Raise(<<"ParentNode requires a tag">>)
    ELSE IF children = NoChildren \/ Len(children) = 0
    THEN Raise(<<"ParentNode requires children">>)
    ELSE Ok(HTMLNode("ParentNode", tag, None, children, props))

RECURSIVE to_html(_), children_to_html(_, _, _)

\* the loop prepending each child's text instead of appending it
children_to_html_reversed(children, i, children_html) ==
    IF i > Len(children) THEN Ok(children_html)
    ELSE LET r == to_html(children[i])
         IN  IF Raised(r) THEN r
             ELSE children_to_html(children, i + 1, Value(r) \o children_html)

\* the loop of ParentNode.to_html: children_html += child.to_html()
children_to_html(children, i, children_html) ==
    IF i > Len(children) THEN Ok(children_html)
    ELSE LET r == to_html(children[i])
         IN  IF Raised(r) THEN r
             ELSE children_to_html(children, i + 1, children_html \o Value(r))

ParentNode_to_html(self) ==
    IF tag_of(self) = None THEN Raise(<<"ParentNode requires a tag">>)
    ELSE IF children_of(self) = NoChildren \/ Len(children_of(self)) = 0
    THEN Raise(<<"ParentNode has no children">>)
    ELSE LET r == children_to_html(children_of(self), 1, <<>>)
         IN  IF Raised(r) THEN r
             ELSE Ok(<<"<">> \o tag_of(self) \o props_to_html(props_of(self)) \o <<">">>
                     \o Value(r) \o <<"<", "/">> \o tag_of(self) \o <<">">>)

\* method dispatch on the object's class
to_html(self) ==
    IF cls_of(self) = "LeafNode" THEN LeafNode_to_html(self)
    ELSE IF cls_of(self) = "ParentNode" THEN ParentNode_to_html(self)
    ELSE HTMLNode_to_html(self)

-----------------------------------------------------------------------------
(* textnode.py: text spans and the inline tokenizer *)

\* TextType values
TextType_TEXT == "text"
TextType_BOLD == "bold"
TextType_ITALIC == "italic"
TextType_CODE == "code"
TextType_LINK == "link"
TextType_IMAGE == "image"

\* an object of class TextNode with the fields TextNode.__init__ stores
TextNode(text, text_type, url) == <<"TextNode", text, text_type, url>>

\* the attributes of a TextNode
text_of(n) == n[2]
text_type_of(n) == n[3]
url_of(n) == n[4]

\* isinstance(object, TextNode)
isinstance_TextNode(object) == cls_of(object) = "TextNode"

\* the first index from i on where s has a character of chars; 0 if none
first_of(s, i, chars) ==
    LET idx == {j \in i..Len(s) : s[j] \in chars}
    IN  IF idx = {} THEN 0 ELSE Min(idx)

\* the match of \[([^\[\]]*)\]\(([^\(\)]*)\) starting at index i of text:
\* <<alt, url, index of the closing parenthesis>>, or <<>> when there is none
bracket_match(text, i) ==
    IF ~(i <= Len(text) /\ text[i] = "[") THEN <<>>
    ELSE LET j == first_of(text, i + 1, {"[", "]"})
         IN  IF j = 0 \/ text[j] # "]" THEN <<>>
             ELSE IF ~(j + 1 <= Len(text) /\ text[j + 1] = "(") THEN <<>>
             ELSE LET k == first_of(text, j + 2, {"(", ")"})
                  IN  IF k = 0 \/ text[k] # ")" THEN <<>>
                      ELSE <<SubSeq(text, i + 1, j - 1), SubSeq(text, j + 2, k - 1), k>>

\* re.findall scanning from index i for the image pattern !\[...\]\(...\)
RECURSIVE findall_images(_, _)
findall_images(text, i) ==
    IF i > Len(text) THEN <<>>
    ELSE LET m == IF text[i] = "!" THEN bracket_match(text, i + 1) ELSE <<>>
         IN  IF m = <<>> THEN findall_images(text, i + 1)
             ELSE << <<m[1], m[2]>> >> \o findall_images(text, m[3] + 1)

\* re.findall scanning from index i for the link pattern (?<!!)\[...\]\(...\)
RECURSIVE findall_links(_, _)
findall_links(text, i) ==
    IF i > Len(text) THEN <<>>
    ELSE LET m == IF i > 1 /\ text[i - 1] = "!" THEN <<>> ELSE bracket_match(text, i)
         IN  IF m = <<>> THEN findall_links(text, i + 1)
             ELSE << <<m[1], m[2]>> >> \o findall_links(text, m[3] + 1)

extract_markdown_images(text) == findall_images(text, 1)

extract_markdown_links(text) == findall_links(text, 1)

RECURSIVE delimiter_parts(_, _, _)

\* the loop emitting a span for an empty part too
delimiter_parts_keeping_empty(parts, i, text_type) ==
    IF i >= Len(parts) THEN <<>>
    ELSE (IF i % 2 = 0 THEN <<TextNode(parts[i + 1], TextType_TEXT, None)>>
          ELSE <<TextNode(parts[i + 1], text_type, None)>>)
         \o delimiter_parts(parts, i + 1, text_type)

\* the loop over enumerate(parts) of split_nodes_delimiter; i is 0-based
delimiter_parts(parts, i, text_type) ==
    IF i >= Len(parts) THEN <<>>
    ELSE (IF Len(parts[i + 1]) = 0 THEN <<>>
          ELSE IF i % 2 = 0 THEN <<TextNode(parts[i + 1], TextType_TEXT, None)>>
          ELSE <<TextNode(parts[i + 1], text_type, None)>>)
         \o delimiter_parts(parts, i + 1, text_type)

RECURSIVE split_nodes_delimiter_from(_, _, _, _, _)

\* the loop without the check of the number of parts
split_nodes_delimiter_from_unchecked(old_nodes, k, new_nodes, delimiter, text_type) ==
    IF k > Len(old_nodes) THEN Ok(new_nodes)
    ELSE LET n == old_nodes[k]
         IN  IF ~isinstance_TextNode(n) \/ text_type_of(n) # TextType_TEXT
             THEN split_nodes_delimiter_from(old_nodes, k + 1, Append(new_nodes, n),
                                             delimiter, text_type)
             ELSE split_nodes_delimiter_from(
                      old_nodes, k + 1,
                      new_nodes \o delimiter_parts(split(text_of(n), delimiter), 0, text_type),
                      delimiter, text_type)

\* the loop over old_nodes of split_nodes_delimiter, from node k on
split_nodes_delimiter_from(old_nodes, k, new_nodes, delimiter, text_type) ==
    IF k > Len(old_nodes) THEN Ok(new_nodes)
    ELSE LET n == old_nodes[k]
         IN  IF ~isinstance_TextNode(n) \/ text_type_of(n) # TextType_TEXT
             THEN split_nodes_delimiter_from(old_nodes, k + 1, Append(new_nodes, n),
                                             delimiter, text_type)
             ELSE LET parts == split(text_of(n), delimiter)
                  IN  IF Len(parts) % 2 = 0
                      THEN Raise(<<"Unmatched delimiter ">> \o delimiter \o <<" in text">>)
                      ELSE split_nodes_delimiter_from(
                               old_nodes, k + 1,
                               new_nodes \o delimiter_parts(parts, 0, text_type),
                               delimiter, text_type)

split_nodes_delimiter(old_nodes, delimiter, text_type) ==
    split_nodes_delimiter_from(old_nodes, 1, <<>>, delimiter, text_type)

\* the loop over the matches of split_nodes_image / split_nodes_link:
\* <<spans emitted, remaining_text>>; token(m) is the text split on
RECURSIVE split_matches(_, _, _, _, _)
split_matches(matches, k, remaining_text, prefix, text_type) ==
    IF k > Len(matches) THEN
        IF Len(remaining_text) > 0
        THEN <<TextNode(remaining_text, TextType_TEXT, None)>> ELSE <<>>
    ELSE LET token == prefix \o <<"[">> \o matches[k][1] \o <<"]", "(">>
                      \o matches[k][2] \o <<")">>
             parts == split1(remaining_text, token)
         IN  (IF Len(parts[1]) > 0
              THEN <<TextNode(parts[1], TextType_TEXT, None)>> ELSE <<>>)
             \o <<TextNode(matches[k][1], text_type, matches[k][2])>>
             \o split_matches(matches, k + 1,
                              IF Len(parts) > 1 THEN parts[2] ELSE <<>>,
                              prefix, text_type)

\* split_nodes_image looking for images in spans of every type
split_node_image_any_type(n) ==
    IF Len(text_of(n)) = 0 THEN <<>>
    ELSE LET images == extract_markdown_images(text_of(n))
         IN  IF Len(images) = 0 THEN <<n>>
             ELSE split_matches(images, 1, text_of(n), <<"!">>, TextType_IMAGE)

\* what split_nodes_image appends for one node
split_node_image(n) ==
    IF ~isinstance_TextNode(n) \/ text_type_of(n) # TextType_TEXT THEN <<n>>
    ELSE IF Len(text_of(n)) = 0 THEN <<>>
    ELSE LET images == extract_markdown_images(text_of(n))
         IN  IF Len(images) = 0 THEN <<n>>
             ELSE split_matches(images, 1, text_of(n), <<"!">>, TextType_IMAGE)

RECURSIVE split_nodes_image(_)
split_nodes_image(old_nodes) ==
    IF Len(old_nodes) = 0 THEN <<>>
    ELSE split_node_image(old_nodes[1]) \o split_nodes_image(Tail(old_nodes))

\* what split_nodes_link appends for one node
split_node_link(n) ==
    IF ~isinstance_TextNode(n) \/ text_type_of(n) # TextType_TEXT THEN <<n>>
    ELSE IF Len(text_of(n)) = 0 THEN <<>>
    ELSE LET links == extract_markdown_links(text_of(n))
         IN  IF Len(links) = 0 THEN <<n>>
             ELSE split_matches(links, 1, text_of(n), <<>>, TextType_LINK)

RECURSIVE split_nodes_link(_)
split_nodes_link(old_nodes) ==
    IF Len(old_nodes) = 0 THEN <<>>
    ELSE split_node_link(old_nodes[1]) \o split_nodes_link(Tail(old_nodes))

\* the delimiter stages with the * stage ahead of the ** stage
DelimiterStages_italic_first ==
    << <<<<"*">>, TextType_ITALIC>>, <<<<"*", "*">>, TextType_BOLD>>,
       <<<<"_">>, TextType_ITALIC>>, <<<<Backtick>>, TextType_CODE>> >>

\* the delimiter stages of text_to_textnodes, in order
DelimiterStages ==
    << <<<<"*", "*">>, TextType_BOLD>>, <<<<"*">>, TextType_ITALIC>>,
       <<<<"_">>, TextType_ITALIC>>, <<<<Backtick>>, TextType_CODE>> >>

\* the delimiter stages from stage k on; an exception ends the pipeline
RECURSIVE delimiter_stages_from(_, _)
delimiter_stages_from(nodes, k) ==
    IF k > Len(DelimiterStages) THEN Ok(nodes)
    ELSE Then(split_nodes_delimiter(nodes, DelimiterStages[k][1], DelimiterStages[k][2]),
              LAMBDA new_nodes : delimiter_stages_from(new_nodes, k + 1))

\* the pipeline extracting links ahead of images
text_to_textnodes_links_first(text) ==
    delimiter_stages_from(
        split_nodes_image(split_nodes_link(<<TextNode(text, TextType_TEXT, None)>>)), 1)

text_to_textnodes(text) ==
    delimiter_stages_from(
        split_nodes_link(split_nodes_image(<<TextNode(text, TextType_TEXT, None)>>)), 1)

-----------------------------------------------------------------------------
(* textnode.py: blocks, block builders and the document assembler *)

\* BlockType values
BlockType_PARAGRAPH == "paragraph"
BlockType_HEADING == "heading"
BlockType_CODE == "code"
BlockType_QUOTE == "quote"
BlockType_UNORDERED_LIST == "unordered_list"
BlockType_ORDERED_LIST == "ordered_list"

BlockTypes ==
    { BlockType_PARAGRAPH, BlockType_HEADING, BlockType_CODE, BlockType_QUOTE,
      BlockType_UNORDERED_LIST, BlockType_ORDERED_LIST }

Digits == <<"0", "1", "2", "3", "4", "5", "6", "7", "8", "9">>

\* the characters \d matches in a str pattern besides 0..9: the decimal
\* digits of the other scripts, written as their code points
OtherDecimalDigits ==
    { "U+0660", "U+0661", "U+0662", "U+0663", "U+0664", "U+0665", "U+0666",
      "U+0667", "U+0668", "U+0669", "U+06F0", "U+06F1", "U+06F2", "U+06F3",
      "U+06F4", "U+06F5", "U+06F6", "U+06F7", "U+06F8", "U+06F9", "U+07C0",
      "U+07C1", "U+07C2", "U+07C3", "U+07C4", "U+07C5", "U+07C6", "U+07C7",
      "U+07C8", "U+07C9", "U+0966", "U+0967", "U+0968", "U+0969", "U+096A",
      "U+096B", "U+096C", "U+096D", "U+096E", "U+096F", "U+09E6", "U+09E7",
      "U+09E8", "U+09E9", "U+09EA", "U+09EB", "U+09EC", "U+09ED", "U+09EE",
      "U+09EF", "U+0A66", "U+0A67", "U+0A68", "U+0A69", "U+0A6A", "U+0A6B",
      "U+0A6C", "U+0A6D", "U+0A6E", "U+0A6F", "U+0AE6", "U+0AE7", "U+0AE8",
      "U+0AE9", "U+0AEA", "U+0AEB", "U+0AEC", "U+0AED", "U+0AEE", "U+0AEF",
      "U+0B66", "U+0B67", "U+0B68", "U+0B69", "U+0B6A", "U+0B6B", "U+0B6C",
      "U+0B6D", "U+0B6E", "U+0B6F", "U+0BE6", "U+0BE7", "U+0BE8", "U+0BE9",
      "U+0BEA", "U+0BEB", "U+0BEC", "U+0BED", "U+0BEE", "U+0BEF", "U+0C66",
      "U+0C67", "U+0C68", "U+0C69", "U+0C6A", "U+0C6B", "U+0C6C", "U+0C6D",
      "U+0C6E", "U+0C6F", "U+0CE6", "U+0CE7", "U+0CE8", "U+0CE9", "U+0CEA",
      "U+0CEB", "U+0CEC", "U+0CED", "U+0CEE", "U+0CEF", "U+0D66", "U+0D67",
      "U+0D68", "U+0D69", "U+0D6A", "U+0D6B", "U+0D6C", "U+0D6D", "U+0D6E",
      "U+0D6F", "U+0DE6", "U+0DE7", "U+0DE8", "U+0DE9", "U+0DEA", "U+0DEB",
      "U+0DEC", "U+0DED", "U+0DEE", "U+0DEF", "U+0E50", "U+0E51", "U+0E52",
      "U+0E53", "U+0E54", "U+0E55", "U+0E56", "U+0E57", "U+0E58", "U+0E59",
      "U+0ED0", "U+0ED1", "U+0ED2", "U+0ED3", "U+0ED4", "U+0ED5", "U+0ED6",
      "U+0ED7", "U+0ED8", "U+0ED9", "U+0F20", "U+0F21", "U+0F22", "U+0F23",
      "U+0F24", "U+0F25", "U+0F26", "U+0F27", "U+0F28", "U+0F29", "U+1040",
      "U+1041", "U+1042", "U+1043", "U+1044", "U+1045", "U+1046", "U+1047",
      "U+1048", "U+1049", "U+1090", "U+1091", "U+1092", "U+1093", "U+1094",
      "U+1095", "U+1096", "U+1097", "U+1098", "U+1099", "U+17E0", "U+17E1",
      "U+17E2", "U+17E3", "U+17E4", "U+17E5", "U+17E6", "U+17E7", "U+17E8",
      "U+17E9", "U+1810", "U+1811", "U+1812", "U+1813", "U+1814", "U+1815",
      "U+1816", "U+1817", "U+1818", "U+1819", "U+1946", "U+1947", "U+1948",
      "U+1949", "U+194A", "U+194B", "U+194C", "U+194D", "U+194E", "U+194F",
      "U+19D0", "U+19D1", "U+19D2", "U+19D3", "U+19D4", "U+19D5", "U+19D6",
      "U+19D7", "U+19D8", "U+19D9", "U+1A80", "U+1A81", "U+1A82", "U+1A83",
      "U+1A84", "U+1A85", "U+1A86", "U+1A87", "U+1A88", "U+1A89", "U+1A90",
      "U+1A91", "U+1A92", "U+1A93", "U+1A94", "U+1A95", "U+1A96", "U+1A97",
      "U+1A98", "U+1A99", "U+1B50", "U+1B51", "U+1B52", "U+1B53", "U+1B54",
      "U+1B55", "U+1B56", "U+1B57", "U+1B58", "U+1B59", "U+1BB0", "U+1BB1",
      "U+1BB2", "U+1BB3", "U+1BB4", "U+1BB5", "U+1BB6", "U+1BB7", "U+1BB8",
      "U+1BB9", "U+1C40", "U+1C41", "U+1C42", "U+1C43", "U+1C44", "U+1C45",
      "U+1C46", "U+1C47", "U+1C48", "U+1C49", "U+1C50", "U+1C51", "U+1C52",
      "U+1C53", "U+1C54", "U+1C55", "U+1C56", "U+1C57", "U+1C58", "U+1C59",
      "U+A620", "U+A621", "U+A622", "U+A623", "U+A624", "U+A625", "U+A626",
      "U+A627", "U+A628", "U+A629", "U+A8D0", "U+A8D1", "U+A8D2", "U+A8D3",
      "U+A8D4", "U+A8D5", "U+A8D6", "U+A8D7", "U+A8D8", "U+A8D9", "U+A900",
      "U+A901", "U+A902", "U+A903", "U+A904", "U+A905", "U+A906", "U+A907",
      "U+A908", "U+A909", "U+A9D0", "U+A9D1", "U+A9D2", "U+A9D3", "U+A9D4",
      "U+A9D5", "U+A9D6", "U+A9D7", "U+A9D8", "U+A9D9", "U+A9F0", "U+A9F1",
      "U+A9F2", "U+A9F3", "U+A9F4", "U+A9F5", "U+A9F6", "U+A9F7", "U+A9F8",
      "U+A9F9", "U+AA50", "U+AA51", "U+AA52", "U+AA53", "U+AA54", "U+AA55",
      "U+AA56", "U+AA57", "U+AA58", "U+AA59", "U+ABF0", "U+ABF1", "U+ABF2",
      "U+ABF3", "U+ABF4", "U+ABF5", "U+ABF6", "U+ABF7", "U+ABF8", "U+ABF9",
      "U+FF10", "U+FF11", "U+FF12", "U+FF13", "U+FF14", "U+FF15", "U+FF16",
      "U+FF17", "U+FF18", "U+FF19", "U+104A0", "U+104A1", "U+104A2",
      "U+104A3", "U+104A4", "U+104A5", "U+104A6", "U+104A7", "U+104A8",
      "U+104A9", "U+10D30", "U+10D31", "U+10D32", "U+10D33", "U+10D34",
      "U+10D35", "U+10D36", "U+10D37", "U+10D38", "U+10D39", "U+11066",
      "U+11067", "U+11068", "U+11069", "U+1106A", "U+1106B", "U+1106C",
      "U+1106D", "U+1106E", "U+1106F", "U+110F0", "U+110F1", "U+110F2",
      "U+110F3", "U+110F4", "U+110F5", "U+110F6", "U+110F7", "U+110F8",
      "U+110F9", "U+11136", "U+11137", "U+11138", "U+11139", "U+1113A",
      "U+1113B", "U+1113C", "U+1113D", "U+1113E", "U+1113F", "U+111D0",
      "U+111D1", "U+111D2", "U+111D3", "U+111D4", "U+111D5", "U+111D6",
      "U+111D7", "U+111D8", "U+111D9", "U+112F0", "U+112F1", "U+112F2",
      "U+112F3", "U+112F4", "U+112F5", "U+112F6", "U+112F7", "U+112F8",
      "U+112F9", "U+11450", "U+11451", "U+11452", "U+11453", "U+11454",
      "U+11455", "U+11456", "U+11457", "U+11458", "U+11459", "U+114D0",
      "U+114D1", "U+114D2", "U+114D3", "U+114D4", "U+114D5", "U+114D6",
      "U+114D7", "U+114D8", "U+114D9", "U+11650", "U+11651", "U+11652",
      "U+11653", "U+11654", "U+11655", "U+11656", "U+11657", "U+11658",
      "U+11659", "U+116C0", "U+116C1", "U+116C2", "U+116C3", "U+116C4",
      "U+116C5", "U+116C6", "U+116C7", "U+116C8", "U+116C9", "U+11730",
      "U+11731", "U+11732", "U+11733", "U+11734", "U+11735", "U+11736",
      "U+11737", "U+11738", "U+11739", "U+118E0", "U+118E1", "U+118E2",
      "U+118E3", "U+118E4", "U+118E5", "U+118E6", "U+118E7", "U+118E8",
      "U+118E9", "U+11950", "U+11951", "U+11952", "U+11953", "U+11954",
      "U+11955", "U+11956", "U+11957", "U+11958", "U+11959", "U+11C50",
      "U+11C51", "U+11C52", "U+11C53", "U+11C54", "U+11C55", "U+11C56",
      "U+11C57", "U+11C58", "U+11C59", "U+11D50", "U+11D51", "U+11D52",
      "U+11D53", "U+11D54", "U+11D55", "U+11D56", "U+11D57", "U+11D58",
      "U+11D59", "U+11DA0", "U+11DA1", "U+11DA2", "U+11DA3", "U+11DA4",
      "U+11DA5", "U+11DA6", "U+11DA7", "U+11DA8", "U+11DA9", "U+16A60",
      "U+16A61", "U+16A62", "U+16A63", "U+16A64", "U+16A65", "U+16A66",
      "U+16A67", "U+16A68", "U+16A69", "U+16AC0", "U+16AC1", "U+16AC2",
      "U+16AC3", "U+16AC4", "U+16AC5", "U+16AC6", "U+16AC7", "U+16AC8",
      "U+16AC9", "U+16B50", "U+16B51", "U+16B52", "U+16B53", "U+16B54",
      "U+16B55", "U+16B56", "U+16B57", "U+16B58", "U+16B59", "U+1D7CE",
      "U+1D7CF", "U+1D7D0", "U+1D7D1", "U+1D7D2", "U+1D7D3", "U+1D7D4",
      "U+1D7D5", "U+1D7D6", "U+1D7D7", "U+1D7D8", "U+1D7D9", "U+1D7DA",
      "U+1D7DB", "U+1D7DC", "U+1D7DD", "U+1D7DE", "U+1D7DF", "U+1D7E0",
      "U+1D7E1", "U+1D7E2", "U+1D7E3", "U+1D7E4", "U+1D7E5", "U+1D7E6",
      "U+1D7E7", "U+1D7E8", "U+1D7E9", "U+1D7EA", "U+1D7EB", "U+1D7EC",
      "U+1D7ED", "U+1D7EE", "U+1D7EF", "U+1D7F0", "U+1D7F1", "U+1D7F2",
      "U+1D7F3", "U+1D7F4", "U+1D7F5", "U+1D7F6", "U+1D7F7", "U+1D7F8",
      "U+1D7F9", "U+1D7FA", "U+1D7FB", "U+1D7FC", "U+1D7FD", "U+1D7FE",
      "U+1D7FF", "U+1E140", "U+1E141", "U+1E142", "U+1E143", "U+1E144",
      "U+1E145", "U+1E146", "U+1E147", "U+1E148", "U+1E149", "U+1E2F0",
      "U+1E2F1", "U+1E2F2", "U+1E2F3", "U+1E2F4", "U+1E2F5", "U+1E2F6",
      "U+1E2F7", "U+1E2F8", "U+1E2F9", "U+1E950", "U+1E951", "U+1E952",
      "U+1E953", "U+1E954", "U+1E955", "U+1E956", "U+1E957", "U+1E958",
      "U+1E959", "U+1FBF0", "U+1FBF1", "U+1FBF2", "U+1FBF3", "U+1FBF4",
      "U+1FBF5", "U+1FBF6", "U+1FBF7", "U+1FBF8", "U+1FBF9" }

\* the characters \d matches
DecimalDigits == {Digits[d] : d \in 1..10} \cup OtherDecimalDigits

\* [a-zA-Z0-9_-]
IdentifierChars ==
    {"a", "b", "c", "d", "e", "f", "g", "h", "i", "j", "k", "l", "m",
     "n", "o", "p", "q", "r", "s", "t", "u", "v", "w", "x", "y", "z",
     "A", "B", "C", "D", "E", "F", "G", "H", "I", "J", "K", "L", "M",
     "N", "O", "P", "Q", "R", "S", "T", "U", "V", "W", "X", "Y", "Z",
     "0", "1", "2", "3", "4", "5", "6", "7", "8", "9", "_", "-"}

Fence == <<Backtick, Backtick, Backtick>>

\* str(i) for i >= 0
RECURSIVE str_int(_)
str_int(i) ==
    IF i < 10 THEN <<Digits[i + 1]>> ELSE str_int(i \div 10) \o <<Digits[(i % 10) + 1]>>

\* the blocks kept by the loop of markdown_to_blocks
RECURSIVE strip_blocks(_)
strip_blocks(pieces) ==
    IF Len(pieces) = 0 THEN <<>>
    ELSE (IF strip(pieces[1]) # <<>> THEN <<strip(pieces[1])>> ELSE <<>>)
         \o strip_blocks(Tail(pieces))

\* the pieces as split gives them, neither stripped nor discarded
markdown_to_blocks_unstripped(md) == split(md, <<"\n", "\n">>)

markdown_to_blocks(md) == strip_blocks(split(md, <<"\n", "\n">>))

\* the number of '#' characters s starts with
leading_hashes(s) ==
    LET other == {i \in 1..Len(s) : s[i] # "#"}
    IN  IF other = {} THEN Len(s) ELSE Min(other) - 1

\* re.match(r'^(#{1,6}) ', s): the length of group 1, 0 when there is no match
heading_match(s) ==
    LET h == leading_hashes(s)
    IN  IF h >= 1 /\ h <= 6 /\ Len(s) > h /\ s[h + 1] = " " THEN h ELSE 0

\* any(...) in the place of all(...)
any_startwith(lines, prefix) == \E i \in 1..Len(lines) : startswith(lines[i], prefix)

\* all(line.startswith(prefix) for line in lines)
all_startwith(lines, prefix) == \A i \in 1..Len(lines) : startswith(lines[i], prefix)

\* the loop matching ^\d\. in the place of ^{i}\. 
ordered_list_valid_any_number(lines) ==
    \A i \in 1..Len(lines) :
        /\ Len(lines[i]) >= 3
        /\ \E d \in 1..10 : lines[i][1] = Digits[d]
        /\ lines[i][2] = "." /\ lines[i][3] = " "

\* re.match(rf'^{i}\. ', line) for every line, i counted from 1
ordered_list_valid(lines) ==
    \A i \in 1..Len(lines) : startswith(lines[i], str_int(i) \o <<".", " ">>)

\* the classification accepting a one-line code block of six characters
block_to_block_type_short_code(block) ==
    LET lines == split(block, <<"\n">>)
        first_line == strip(lines[1])
        last_line == strip(lines[Len(lines)])
    IN  IF Len(lines) = 1 /\ heading_match(lines[1]) > 0 THEN BlockType_HEADING
        ELSE IF startswith(first_line, Fence) THEN
            IF Len(lines) = 1 THEN
                IF startswith(strip(block), Fence) /\ endswith(strip(block), Fence)
                   /\ Len(strip(block)) >= 6
                THEN BlockType_CODE ELSE BlockType_PARAGRAPH
            ELSE IF startswith(last_line, Fence) THEN BlockType_CODE
            ELSE BlockType_PARAGRAPH
        ELSE IF all_startwith(lines, <<">">>) THEN BlockType_QUOTE
        ELSE IF all_startwith(lines, <<"-", " ">>) THEN BlockType_UNORDERED_LIST
        ELSE IF ordered_list_valid(lines) /\ Len(lines) > 0 THEN BlockType_ORDERED_LIST
        ELSE BlockType_PARAGRAPH

block_to_block_type(block) ==
    LET lines == split(block, <<"\n">>)
        first_line == strip(lines[1])
        last_line == strip(lines[Len(lines)])
    IN  IF Len(lines) = 1 /\ heading_match(lines[1]) > 0 THEN BlockType_HEADING
        ELSE IF startswith(first_line, Fence) THEN
            IF Len(lines) = 1 THEN
                IF startswith(strip(block), Fence) /\ endswith(strip(block), Fence)
                   /\ Len(strip(block)) > 6
                THEN BlockType_CODE ELSE BlockType_PARAGRAPH
            ELSE IF startswith(last_line, Fence) THEN BlockType_CODE
            ELSE BlockType_PARAGRAPH
        ELSE IF all_startwith(lines, <<">">>) THEN BlockType_QUOTE
        ELSE IF all_startwith(lines, <<"-", " ">>) THEN BlockType_UNORDERED_LIST
        ELSE IF ordered_list_valid(lines) /\ Len(lines) > 0 THEN BlockType_ORDERED_LIST
        ELSE BlockType_PARAGRAPH

\* node building that takes an empty url for a url
text_node_to_html_node_any_url(text_node) ==
    IF ~isinstance_TextNode(text_node) THEN Raise(<<"Input must be a TextNode">>)
    ELSE IF text_type_of(text_node) = TextType_TEXT
    THEN LeafNode_init(None, text_of(text_node), NoProps)
    ELSE IF text_type_of(text_node) = TextType_BOLD
    THEN LeafNode_init(<<"b">>, text_of(text_node), NoProps)
    ELSE IF text_type_of(text_node) = TextType_ITALIC
    THEN LeafNode_init(<<"i">>, text_of(text_node), NoProps)
    ELSE IF text_type_of(text_node) = TextType_CODE
    THEN LeafNode_init(<<"c", "o", "d", "e">>, text_of(text_node), NoProps)
    ELSE IF text_type_of(text_node) = TextType_LINK
    THEN IF url_of(text_node) = None
         THEN Raise(<<"Link TextNode requires a url">>)
         ELSE LeafNode_init(<<"a">>, text_of(text_node),
                            << <<<<"h", "r", "e", "f">>, url_of(text_node)>> >>)
    ELSE IF text_type_of(text_node) = TextType_IMAGE
    THEN IF url_of(text_node) = None
         THEN Raise(<<"Image TextNode requires a url">>)
         ELSE LeafNode_init(<<"i", "m", "g">>, <<>>,
                            << <<<<"s", "r", "c">>, url_of(text_node)>>,
                               <<<<"a", "l", "t">>, text_of(text_node)>> >>)
    ELSE Raise(<<"Invalid text type: ", text_type_of(text_node)>>)

text_node_to_html_node(text_node) ==
    IF ~isinstance_TextNode(text_node) THEN Raise(<<"Input must be a TextNode">>)
    ELSE IF text_type_of(text_node) = TextType_TEXT
    THEN LeafNode_init(None, text_of(text_node), NoProps)
    ELSE IF text_type_of(text_node) = TextType_BOLD
    THEN LeafNode_init(<<"b">>, text_of(text_node), NoProps)
    ELSE IF text_type_of(text_node) = TextType_ITALIC
    THEN LeafNode_init(<<"i">>, text_of(text_node), NoProps)
    ELSE IF text_type_of(text_node) = TextType_CODE
    THEN LeafNode_init(<<"c", "o", "d", "e">>, text_of(text_node), NoProps)
    ELSE IF text_type_of(text_node) = TextType_LINK
    THEN IF url_of(text_node) = None \/ Len(url_of(text_node)) = 0
         THEN Raise(<<"Link TextNode requires a url">>)
         ELSE LeafNode_init(<<"a">>, text_of(text_node),
                            << <<<<"h", "r", "e", "f">>, url_of(text_node)>> >>)
    ELSE IF text_type_of(text_node) = TextType_IMAGE
    THEN IF url_of(text_node) = None \/ Len(url_of(text_node)) = 0
         THEN Raise(<<"Image TextNode requires a url">>)
         ELSE LeafNode_init(<<"i", "m", "g">>, <<>>,
                            << <<<<"s", "r", "c">>, url_of(text_node)>>,
                               <<<<"a", "l", "t">>, text_of(text_node)>> >>)
    ELSE Raise(<<"Invalid text type: ", text_type_of(text_node)>>)

\* [text_node_to_html_node(node) for node in text_nodes], from node k on
RECURSIVE text_nodes_to_html_nodes(_, _, _)
text_nodes_to_html_nodes(text_nodes, k, html_nodes) ==
    IF k > Len(text_nodes) THEN Ok(html_nodes)
    ELSE Then(text_node_to_html_node(text_nodes[k]),
              LAMBDA html_node :
                  text_nodes_to_html_nodes(text_nodes, k + 1, Append(html_nodes, html_node)))

text_to_children(text) ==
    Then(text_to_textnodes(text),
         LAMBDA text_nodes : text_nodes_to_html_nodes(text_nodes, 1, <<>>))

heading_block_to_html(block) ==
    LET level == heading_match(block)
    IN  IF level = 0 THEN Raise(<<"Invalid heading format">>)
        ELSE LET content == strip(lstrip_chars(block, {"#", " "}))
             IN  Then(text_to_children(content),
                      LAMBDA children :
                          ParentNode_init(<<"h">> \o str_int(level), children, NoProps))

paragraph_block_to_html(block) ==
    Then(text_to_children(block),
         LAMBDA children :
             IF Len(children) = 0
             THEN ParentNode_init(<<"p">>, <<Value(LeafNode_init(None, <<>>, NoProps))>>,
                                  NoProps)
             ELSE ParentNode_init(<<"p">>, children, NoProps))

\* re.match(r'^[a-zA-Z0-9_-]+$', s) for an s without a newline
identifier_match(s) == Len(s) > 0 /\ \A i \in 1..Len(s) : s[i] \in IdentifierChars

\* the builder handing the code to the inline tokenizer
code_block_to_html_tokenized(block) ==
    LET content == strip(removesuffix(removeprefix(strip(block), Fence), Fence))
        lines == split(content, <<"\n">>)
        code == IF Len(lines) > 1 /\ identifier_match(strip(lines[1]))
                THEN strip(join(<<"\n">>, Tail(lines)))
                ELSE content
    IN  Then(text_to_children(code),
             LAMBDA children :
                 Then(ParentNode_init(<<"c", "o", "d", "e">>, children, NoProps),
                      LAMBDA code_parent :
                          ParentNode_init(<<"p", "r", "e">>, <<code_parent>>, NoProps)))

code_block_to_html(block) ==
    LET content == strip(removesuffix(removeprefix(strip(block), Fence), Fence))
        lines == split(content, <<"\n">>)
        code == IF Len(lines) > 1 /\ identifier_match(strip(lines[1]))
                THEN strip(join(<<"\n">>, Tail(lines)))
                ELSE content
    IN  Then(text_node_to_html_node(TextNode(code, TextType_TEXT, None)),
             LAMBDA code_node :
                 Then(ParentNode_init(<<"c", "o", "d", "e">>, <<code_node>>, NoProps),
                      LAMBDA code_parent :
                          ParentNode_init(<<"p", "r", "e">>, <<code_parent>>, NoProps)))

\* [f(line) for line in lines if line.strip()] with f(line) = line.lstrip(chars).strip()
RECURSIVE stripped_lines(_, _)
stripped_lines(lines, chars) ==
    IF Len(lines) = 0 THEN <<>>
    ELSE (IF strip(lines[1]) # <<>>
          THEN <<strip(lstrip_chars(lines[1], chars))>> ELSE <<>>)
         \o stripped_lines(Tail(lines), chars)

quote_block_to_html(block) ==
    LET content == join(<<"\n">>, stripped_lines(split(block, <<"\n">>), {">"}))
    IN  Then(text_to_children(content),
             LAMBDA children :
                 ParentNode_init(<<"b", "l", "o", "c", "k", "q", "u", "o", "t", "e">>,
                                 children, NoProps))

\* re.sub(r'^\d+\.\s+', '', item): item without the decimal digits, the dot
\* and the whitespace it starts with, item as it is when it does not start so
sub_number_prefix(item) ==
    LET digits == {i \in 1..Len(item) : \A j \in 1..i : item[j] \in DecimalDigits}
        nd == Cardinality(digits)
        spaces == {i \in (nd + 2)..Len(item) :
                       \A j \in (nd + 2)..i : item[j] \in Whitespace}
    IN  IF nd > 0 /\ Len(item) > nd /\ item[nd + 1] = "." /\ spaces # {}
        THEN SubSeq(item, nd + 2 + Cardinality(spaces), Len(item))
        ELSE item

\* the loop of the list builders over items, from item k on; content(item)
\* is the item without its prefix
RECURSIVE list_items_to_html(_, _, _, _)
list_items_to_html(items, k, children, ordered) ==
    IF k > Len(items) THEN Ok(children)
    ELSE IF strip(items[k]) = <<>>
    THEN list_items_to_html(items, k + 1, children, ordered)
    ELSE LET content == IF ordered THEN strip(sub_number_prefix(items[k]))
                        ELSE strip(lstrip_chars(items[k], {"-", " "}))
         IN  Then(text_to_children(content),
                  LAMBDA item_children :
                      Then(ParentNode_init(<<"l", "i">>, item_children, NoProps),
                           LAMBDA li :
                               list_items_to_html(items, k + 1, Append(children, li),
                                                  ordered)))

unordered_list_block_to_html(block) ==
    Then(list_items_to_html(split(block, <<"\n">>), 1, <<>>, FALSE),
         LAMBDA children : ParentNode_init(<<"u", "l">>, children, NoProps))

ordered_list_block_to_html(block) ==
    Then(list_items_to_html(split(block, <<"\n">>), 1, <<>>, TRUE),
         LAMBDA children : ParentNode_init(<<"o", "l">>, children, NoProps))

\* [re.sub(r'^\d+\.\s+', '', line).strip() for line in lines if line.strip()]
RECURSIVE unnumbered_lines(_)
unnumbered_lines(lines) ==
    IF Len(lines) = 0 THEN <<>>
    ELSE (IF strip(lines[1]) # <<>>
          THEN <<strip(sub_number_prefix(lines[1]))>> ELSE <<>>)
         \o unnumbered_lines(Tail(lines))

\* the block without the prefixes of its type
strip_block_prefix(block, block_type) ==
    IF block_type = BlockType_HEADING
    THEN strip(lstrip_chars(block, {"#", " "}))
    ELSE IF block_type = BlockType_QUOTE
    THEN join(<<"\n">>, stripped_lines(split(block, <<"\n">>), {">"}))
    ELSE IF block_type = BlockType_UNORDERED_LIST
    THEN join(<<"\n">>, stripped_lines(split(block, <<"\n">>), {"-", " "}))
    ELSE IF block_type = BlockType_ORDERED_LIST
    THEN join(<<"\n">>, unnumbered_lines(split(block, <<"\n">>)))
    ELSE IF block_type = BlockType_CODE
    THEN LET lines == split(strip(block), <<"\n">>)
         IN  IF Len(lines) = 1
             THEN strip(removesuffix(removeprefix(lines[1], Fence), Fence))
             ELSE strip(join(<<"\n">>, SubSeq(lines, 2, Len(lines) - 1)))
    ELSE block

\* the dispatch building a heading as a paragraph
block_to_html_node_no_heading(block) ==
    LET block_type == block_to_block_type(block)
    IN  IF block_type = BlockType_CODE THEN code_block_to_html(block)
        ELSE IF block_type = BlockType_QUOTE THEN quote_block_to_html(block)
        ELSE IF block_type = BlockType_UNORDERED_LIST THEN unordered_list_block_to_html(block)
        ELSE IF block_type = BlockType_ORDERED_LIST THEN ordered_list_block_to_html(block)
        ELSE paragraph_block_to_html(block)

\* the dispatch on the block type in the loop of markdown_to_html_node
block_to_html_node(block) ==
    LET block_type == block_to_block_type(block)
    IN  IF block_type = BlockType_HEADING THEN heading_block_to_html(block)
        ELSE IF block_type = BlockType_PARAGRAPH THEN paragraph_block_to_html(block)
        ELSE IF block_type = BlockType_CODE THEN code_block_to_html(block)
        ELSE IF block_type = BlockType_QUOTE THEN quote_block_to_html(block)
        ELSE IF block_type = BlockType_UNORDERED_LIST THEN unordered_list_block_to_html(block)
        ELSE IF block_type = BlockType_ORDERED_LIST THEN ordered_list_block_to_html(block)
        ELSE Raise(<<"Unknown block type: ", block_type>>)

\* the return without the case of no block
wrap_block_nodes_unguarded(nodes) == ParentNode_init(Str_div, nodes, NoProps)

\* the return of markdown_to_html_node
wrap_block_nodes(nodes) ==
    IF Len(nodes) = 0
    THEN ParentNode_init(Str_div, <<Value(LeafNode_init(None, <<>>, NoProps))>>, NoProps)
    ELSE ParentNode_init(Str_div, nodes, NoProps)

\* the loop of markdown_to_html_node over blocks, from block k on
RECURSIVE build_blocks(_, _, _)
build_blocks(blks, k, nodes) ==
    IF k > Len(blks) THEN Ok(nodes)
    ELSE Then(block_to_html_node(blks[k]),
              LAMBDA html_node : build_blocks(blks, k + 1, Append(nodes, html_node)))

markdown_to_html_node(md) ==
    Then(build_blocks(markdown_to_blocks(md), 1, <<>>), wrap_block_nodes)

\* the loop of extract_title over lines, from line k on
RECURSIVE extract_title_from(_, _)
extract_title_from(lines, k) ==
    IF k > Len(lines) THEN Raise(<<"No h1 header found in Markdown">>)
    ELSE IF startswith(strip(lines[k]), <<"#", " ">>)
            /\ ~startswith(strip(lines[k]), <<"#", "#">>)
    THEN Ok(strip(lstrip_chars(strip(lines[k]), {"#", " "})))
    ELSE extract_title_from(lines, k + 1)

extract_title(md) == extract_title_from(split(md, <<"\n">>), 1)

-----------------------------------------------------------------------------
(* main.py *)

Str_Title == <<"{", "{", " ", "T", "i", "t", "l", "e", " ", "}", "}">>
Str_Content == <<"{", "{", " ", "C", "o", "n", "t", "e", "n", "t", " ", "}", "}">>
Str_href_root == <<"h", "r", "e", "f", "=", "\"", "/">>
Str_src_root == <<"s", "r", "c", "=", "\"", "/">>

\* the page of generate_page: the placeholders replaced, then the root of
\* the href and src attributes replaced by basepath
fill_template(tmpl, title, html_content, base) ==
    replace(replace(replace(replace(tmpl, Str_Title, title), Str_Content, html_content),
                    Str_href_root, <<"h", "r", "e", "f", "=", "\"">> \o base),
            Str_src_root, <<"s", "r", "c", "=", "\"">> \o base)

-----------------------------------------------------------------------------
(* The node model as a state machine: objects are built by the two         *)
(* constructors, their public attributes can be assigned, and they are     *)
(* rendered.                                                               *)

\* tags, values and attribute dicts LeafNode is constructed with
LeafTags == {None, <<>>, Str_p} \cup VOID_ELEMENTS
LeafValues == {None, <<>>, <<"x">>}
LeafProps ==
    { NoProps, <<>>,
      << <<Str_href, <<"u", "\"", "&">> >> >>,
      << <<Str_src, <<"u">> >>, <<Str_alt, <<"<", "t">> >> >>,
      << <<Str_alt, <<"<", "t">> >>, <<Str_src, <<"u">> >> >> }

\* the narrower choice for the leaves that become children of a ParentNode
ChildTags == {None, Str_p, <<"b","r">>}
ChildValues == {None, <<"x">>}
ChildProps == {NoProps, << <<Str_href, <<"u">> >> >>}

\* tags and attribute dicts ParentNode is constructed with
ParentTags == {None, Str_div}
ParentProps == {NoProps, << <<Str_href, <<"u", "\"", "&">> >> >>}

\* a sibling placed next to the current object in a children list
Sibling == HTMLNode("LeafNode", None, <<"y">>, NoChildren, NoProps)

\* tags and children lists HTMLNode is constructed with
BaseTags == {None, Str_div}
BaseChildLists == {NoChildren, <<Sibling>>}

RECURSIVE Depth(_)
Depth(n) ==
    IF cls_of(n) = "None" THEN 0
    ELSE IF children_of(n) = NoChildren \/ Len(children_of(n)) = 0 THEN 1
    ELSE 1 + (CHOOSE d \in {Depth(children_of(n)[i]) : i \in 1..Len(children_of(n))} :
                \A i \in 1..Len(children_of(n)) : Depth(children_of(n)[i]) <= d)

\* children lists a ParentNode is constructed with
ChildLists(n) ==
    {NoChildren, <<>>} \cup
    (IF cls_of(n) # "None" /\ Depth(n) < MaxDepth
     THEN {<<n>>, <<n, Sibling>>, <<Sibling, n>>} ELSE {})

\* no node-model operation made
NodeIdle ==
    /\ node = NoNode
    /\ node_op = "none"
    /\ node_args = NoNode
    /\ node_res = NoCall

\* no tokenizer call made
TokIdle ==
    /\ tok_nodes = <<>>
    /\ tok_call = <<"none", <<>>, "">>
    /\ tok_res = NoCall

\* no document given
DocIdle ==
    /\ markdown = <<>>
    /\ blocks = <<>>
    /\ block_nodes = <<>>
    /\ doc_pc = "idle"
    /\ doc_res = NoCall
    /\ html_res = NoCall

\* no block function called
BlkIdle ==
    /\ blk = <<>>
    /\ blk_call = "idle"
    /\ blk_res = NoCall

\* no page asked for
PageIdle ==
    /\ fs = {}
    /\ stdout = <<>>
    /\ entry = "none"
    /\ argv = <<>>
    /\ site_pc = "idle"
    /\ site_res = NoCall
    /\ src = <<>>
    /\ dst = <<>>
    /\ dir_path_content = <<>>
    /\ dest_dir_path = <<>>
    /\ walk_dirs = <<>>
    /\ root = <<>>
    /\ files = {}
    /\ from_path = <<>>
    /\ template_path = <<>>
    /\ dest_path = <<>>
    /\ basepath = <<>>
    /\ template = <<>>
    /\ page_pc = "idle"
    /\ title_res = NoCall
    /\ final_html = None
    /\ page_res = NoCall

NodeInit == NodeIdle /\ TokIdle /\ DocIdle /\ BlkIdle /\ PageIdle

\* LeafNode(tag, value, props); a constructor that raises leaves no object
Construct(r, args) ==
    /\ node' = IF Raised(r) THEN NoNode ELSE Value(r)
    /\ node_op' = "init"
    /\ node_args' = args
    /\ node_res' = r
    /\ UNCHANGED <<tok_vars, doc_vars, blk_vars, page_vars>>

NewLeaf ==
    \E tag \in LeafTags, value \in LeafValues, props \in LeafProps :
        Construct(LeafNode_init(tag, value, props),
                  HTMLNode("LeafNode", tag, value, NoChildren, props))

NewChildLeaf ==
    \E tag \in ChildTags, value \in ChildValues, props \in ChildProps :
        Construct(LeafNode_init(tag, value, props),
                  HTMLNode("LeafNode", tag, value, NoChildren, props))

\* HTMLNode(tag, value, children, props)
NewBase ==
    \E tag \in BaseTags, value \in ChildValues, children \in BaseChildLists,
       props \in ParentProps :
        Construct(HTMLNode_init(tag, value, children, props),
                  HTMLNode("HTMLNode", tag, value, children, props))

\* ParentNode(tag, children, props)
NewParent ==
    \E tag \in ParentTags, children \in ChildLists(node), props \in ParentProps :
        Construct(ParentNode_init(tag, children, props),
                  HTMLNode("ParentNode", tag, None, children, props))

\* tag_of(node) = None, value_of(node) = None, children_of(node) = None or []
Assign ==
    /\ node # NoNode
    /\ \/ node' = [node EXCEPT ![2] = None]
       \/ node' = [node EXCEPT ![3] = None]
       \/ node' = [node EXCEPT ![4] = NoChildren]
       \/ node' = [node EXCEPT ![4] = <<>>]
    /\ node_op' = "assign"
    /\ node_args' = NoNode
    /\ node_res' = NoCall
    /\ UNCHANGED <<tok_vars, doc_vars, blk_vars, page_vars>>

\* node.props_to_html()
CallPropsToHtml ==
    /\ node # NoNode
    /\ node_op' = "props_to_html"
    /\ node_args' = NoNode
    /\ node_res' = Ok(props_to_html(props_of(node)))
    /\ UNCHANGED <<node, tok_vars, doc_vars, blk_vars, page_vars>>

\* node.to_html()
CallToHtml ==
    /\ node # NoNode
    /\ node_op' = "to_html"
    /\ node_args' = NoNode
    /\ node_res' = to_html(node)
    /\ UNCHANGED <<node, tok_vars, doc_vars, blk_vars, page_vars>>

\* leaves of every tag, alone
LeafNext == NewLeaf \/ NewBase \/ Assign \/ CallPropsToHtml \/ CallToHtml

SpecLeaf == NodeInit /\ [][LeafNext]_vars

\* trees of nodes
NodeNext == NewChildLeaf \/ NewBase \/ NewParent \/ Assign \/ CallToHtml

SpecNode == NodeInit /\ [][NodeNext]_vars

-----------------------------------------------------------------------------
(* Properties of the node model *)

IsLeaf(n) == cls_of(n) = "LeafNode"
IsParent(n) == cls_of(n) = "ParentNode"

\* C3: rendering a Leaf whose tag is not a void-element tag and whose value
\* is absent fails with a ValueError and returns no string.
C3_LeafWithoutValueFails ==
    (node_op = "to_html" /\ IsLeaf(node)
        /\ tag_of(node) \notin VOID_ELEMENTS /\ value_of(node) = None)
    => (Raised(node_res) /\ Exc(node_res) = "ValueError" /\ Value(node_res) = <<>>)

\* a <p> Leaf whose value was set to None has been rendered
C3_Witness ==
    /\ node_op = "to_html" /\ IsLeaf(node)
    /\ tag_of(node) = Str_p /\ value_of(node) = None
    /\ Raised(node_res)

\* C4: rendering a Leaf whose tag is absent returns the value verbatim, and
\* the empty string when the value is absent.
C4_TaglessLeafRendersValue ==
    (node_op = "to_html" /\ IsLeaf(node) /\ tag_of(node) = None)
    => /\ ~Raised(node_res)
       /\ Value(node_res) = IF value_of(node) = None THEN <<>> ELSE value_of(node)

\* C5: rendering a Leaf with a void-element tag returns exactly <tag attrs>,
\* with no closing tag and no inner value, whatever the value is.
C5_VoidLeafHasNoClosingTag ==
    (node_op = "to_html" /\ IsLeaf(node) /\ tag_of(node) \in VOID_ELEMENTS)
    => /\ ~Raised(node_res)
       /\ Value(node_res) =
            <<"<">> \o tag_of(node) \o props_to_html(props_of(node)) \o <<">">>

\* an <img> Leaf with a non-empty value and two attributes has been rendered
C5_Witness ==
    /\ node_op = "to_html" /\ IsLeaf(node)
    /\ tag_of(node) = <<"i","m","g">> /\ value_of(node) = <<"x">>
    /\ Len(props_of(node)) = 2
    /\ ~Raised(node_res)

\* the text of the attributes: every pair preceded by one space
RECURSIVE AttrText(_)
AttrText(props) ==
    IF Len(props) = 0 THEN <<>>
    ELSE <<" ">> \o props[1][1] \o <<"=", "\"">> \o props[1][2] \o <<"\"">>
         \o AttrText(Tail(props))

\* C7: props_to_html returns the empty string for an absent or empty
\* attribute map, and otherwise a leading space and the key="value" pairs
\* joined by single spaces in insertion order, values verbatim.
C7_PropsToHtml ==
    node_op = "props_to_html"
    => /\ ~Raised(node_res)
       /\ Value(node_res) =
            IF props_of(node) = NoProps \/ props_of(node) = <<>> THEN <<>>
            ELSE AttrText(props_of(node))

\* the attributes alt, src (in this order) have been rendered
C7_Witness ==
    /\ node_op = "props_to_html"
    /\ Len(props_of(node)) = 2 /\ props_of(node)[1][1] = Str_alt
    /\ Len(Value(node_res)) > 0

\* the texts of the children, in child order
RECURSIVE RenderedChildren(_)
RenderedChildren(children) ==
    IF Len(children) = 0 THEN <<>>
    ELSE RenderedChildren(SubSeq(children, 1, Len(children) - 1))
         \o Value(to_html(children[Len(children)]))

LacksTagOrChildren(tag, children) ==
    tag = None \/ children = NoChildren \/ children = <<>>

\* C6: constructing and rendering a Parent both fail with a ValueError when
\* the tag is absent or the children are absent or empty; otherwise render
\* returns <tag attrs>, the texts of the children in child order, </tag>.
C6_ParentConstructAndRender ==
    /\ (node_op = "init" /\ IsParent(node_args))
       => /\ Raised(node_res)
                <=> LacksTagOrChildren(tag_of(node_args), children_of(node_args))
          /\ Raised(node_res) => Exc(node_res) = "ValueError"
          /\ ~Raised(node_res) => node = node_args
    /\ (node_op = "to_html" /\ IsParent(node))
       => IF LacksTagOrChildren(tag_of(node), children_of(node))
          THEN Raised(node_res) /\ Exc(node_res) = "ValueError"
          ELSE IF \E i \in 1..Len(children_of(node)) :
                     Raised(to_html(children_of(node)[i]))
          THEN Raised(node_res)
          ELSE /\ ~Raised(node_res)
               /\ Value(node_res) =
                    <<"<">> \o tag_of(node) \o AttrText(IF props_of(node) = NoProps
                                                        THEN <<>> ELSE props_of(node))
                    \o <<">">> \o RenderedChildren(children_of(node))
                    \o <<"<", "/">> \o tag_of(node) \o <<">">>

\* a Parent with two children, one of them a Parent with children of its
\* own, has been rendered
C6_Witness ==
    /\ node_op = "to_html" /\ IsParent(node)
    /\ tag_of(node) # None /\ children_of(node) # NoChildren
    /\ Len(children_of(node)) = 2
    /\ \E i \in 1..2 : /\ IsParent(children_of(node)[i])
                        /\ ~Raised(to_html(children_of(node)[i]))
    /\ ~Raised(node_res)

-----------------------------------------------------------------------------
(* The tokenizer as a state machine: a list that starts as one Plain span, *)
(* as in text_to_textnodes, is handed to the stage functions in any order, *)
(* or the text is handed to text_to_textnodes.                             *)

\* every str over the alphabet of at most n characters
Strings(alphabet, n) == UNION {[1..k -> alphabet] : k \in 0..n}

TokAlphabet == {"a", "*", "_", Backtick}

Str_image_a_u == <<"!", "[", "a", "]", "(", "u", ")">>
Str_link_a_u == <<"[", "a", "]", "(", "u", ")">>
Str_a_and_b ==
    <<"*", "*", "a", "*", "*", " ", "a", "n", "d", " ", "*", "*", "b", "*", "*">>

\* texts with images and links, and the examples of the tests
SampleTexts ==
    { Str_a_and_b,
      Str_image_a_u, Str_link_a_u,
      Str_image_a_u \o <<" ">> \o Str_link_a_u,
      <<"*", "*", "b", "*", "*">> \o Str_image_a_u \o <<"[", "c", "]", "(", "v", ")">>,
      <<"*", "*">> \o Str_image_a_u \o <<"*", "*">>,
      <<"_">> \o Str_link_a_u \o <<"_">> \o Str_image_a_u,
      <<"*", "*", "b", "*", "*", "*", "*", "c", "*", "*">>,
      <<"[", "a", "]", "(", ")">>, <<"!", "[", "]", "(", ")">>,
      <<"a", " ", Backtick, "u", "n", "m">> }

\* the pieces the texts with images and links are made of
Tokens ==
    { Str_image_a_u, Str_link_a_u, <<"[", "b", "]", "(", "v", ")">>,
      <<"!">>, <<" ">>, <<"*">> }

MaxTokens == 3

\* every text made of at most n pieces
RECURSIVE TokenTexts(_)
TokenTexts(n) ==
    IF n = 0 THEN {<<>>}
    ELSE TokenTexts(n - 1) \cup {t \o u : t \in TokenTexts(n - 1), u \in Tokens}

\* every text **x** with x of at most n characters of the alphabet
BoldTexts(n) == {<<"*", "*">> \o x \o <<"*", "*">> : x \in Strings(TokAlphabet, n)}

Str_bold_and_italic ==
    <<"*", "*", "b", "o", "l", "d", " ", "*", "a", "n", "d", "*", " ",
      "i", "t", "a", "l", "i", "c", "*", "*">>

Str_image_x_link_y ==
    <<"!", "[", "a", "]", "(", "x", ".", "p", "n", "g", ")", " ",
      "[", "b", "]", "(", "y", ".", "c", "o", "m", ")">>

TokTexts ==
    Strings(TokAlphabet, MaxTextLen) \cup SampleTexts \cup TokenTexts(MaxTokens)
    \cup BoldTexts(MaxTextLen - 1) \cup {Str_bold_and_italic, Str_image_x_link_y}

TokInit ==
    /\ NodeIdle /\ DocIdle /\ BlkIdle /\ PageIdle
    /\ \E text \in TokTexts : tok_nodes = <<TextNode(text, TextType_TEXT, None)>>
    /\ tok_call = <<"none", <<>>, "">>
    /\ tok_res = NoCall

\* new_nodes = split_nodes_image(old_nodes)
CallSplitNodesImage ==
    /\ tok_call' = <<"split_nodes_image", <<>>, "">>
    /\ tok_res' = Ok(split_nodes_image(tok_nodes))
    /\ tok_nodes' = split_nodes_image(tok_nodes)
    /\ UNCHANGED <<node_vars, doc_vars, blk_vars, page_vars>>

\* new_nodes = split_nodes_link(old_nodes)
CallSplitNodesLink ==
    /\ tok_call' = <<"split_nodes_link", <<>>, "">>
    /\ tok_res' = Ok(split_nodes_link(tok_nodes))
    /\ tok_nodes' = split_nodes_link(tok_nodes)
    /\ UNCHANGED <<node_vars, doc_vars, blk_vars, page_vars>>

\* new_nodes = split_nodes_delimiter(old_nodes, delimiter, text_type); when
\* it raises the caller is left with the list it had
CallSplitNodesDelimiter ==
    \E k \in 1..Len(DelimiterStages) :
        LET r == split_nodes_delimiter(tok_nodes, DelimiterStages[k][1],
                                       DelimiterStages[k][2])
        IN  /\ tok_call' = <<"split_nodes_delimiter", DelimiterStages[k][1],
                             DelimiterStages[k][2]>>
            /\ tok_res' = r
            /\ tok_nodes' = IF Raised(r) THEN tok_nodes ELSE Value(r)
            /\ UNCHANGED <<node_vars, doc_vars, blk_vars, page_vars>>

\* nodes = text_to_textnodes(text), on the text the list started as
CallTextToTextnodes ==
    /\ tok_call[1] = "none"
    /\ LET r == text_to_textnodes(text_of(tok_nodes[1]))
       IN  /\ tok_call' = <<"text_to_textnodes", <<>>, "">>
           /\ tok_res' = r
           /\ tok_nodes' = IF Raised(r) THEN tok_nodes ELSE Value(r)
    /\ UNCHANGED <<node_vars, doc_vars, blk_vars, page_vars>>

TokNext ==
    \/ CallSplitNodesImage
    \/ CallSplitNodesLink
    \/ CallSplitNodesDelimiter
    \/ CallTextToTextnodes

SpecTok == TokInit /\ [][TokNext]_vars

-----------------------------------------------------------------------------
(* Properties of the tokenizer stages *)

IsPlain(n) == text_type_of(n) = TextType_TEXT

\* splitting the text of a Plain span of nodes on delimiter gives an even
\* number of parts
HasUnmatched(nodes, delimiter) ==
    \E i \in 1..Len(nodes) :
        IsPlain(nodes[i]) /\ Len(split(text_of(nodes[i]), delimiter)) % 2 = 0

\* the list delimiter stage k of text_to_textnodes receives for the text,
\* when the stages before it return
RECURSIVE StageInput(_, _)
StageInput(text, k) ==
    IF k = 1
    THEN split_nodes_link(split_nodes_image(<<TextNode(text, TextType_TEXT, None)>>))
    ELSE Value(split_nodes_delimiter(StageInput(text, k - 1), DelimiterStages[k - 1][1],
                                     DelimiterStages[k - 1][2]))

\* stage k is the first delimiter stage that meets an unmatched delimiter
FirstUnmatchedStage(text, k) ==
    /\ \A j \in 1..(k - 1) : ~HasUnmatched(StageInput(text, j), DelimiterStages[j][1])
    /\ HasUnmatched(StageInput(text, k), DelimiterStages[k][1])

\* C8: split_nodes_delimiter fails with a ValueError naming the delimiter
\* whenever a Plain span of its input splits into an even number of parts,
\* and then returns no list; text_to_textnodes fails for the whole text when
\* a stage meets such a span.
C8_UnmatchedDelimiterFails ==
    [][ /\ (tok_call'[1] = "split_nodes_delimiter" /\ HasUnmatched(tok_nodes, tok_call'[2]))
           => /\ Raised(tok_res') /\ Exc(tok_res') = "ValueError"
              /\ Error(tok_res') = <<"Unmatched delimiter ">> \o tok_call'[2] \o <<" in text">>
              /\ Value(tok_res') = <<>>
        /\ tok_call'[1] = "text_to_textnodes"
           => \A k \in 1..Len(DelimiterStages) :
                FirstUnmatchedStage(text_of(tok_nodes[1]), k)
                => /\ Raised(tok_res') /\ Exc(tok_res') = "ValueError"
                   /\ Error(tok_res') = <<"Unmatched delimiter ">> \o DelimiterStages[k][1]
                                         \o <<" in text">>
                   /\ Value(tok_res') = <<>>
      ]_vars

\* split_nodes_delimiter has raised on a list of several spans
C8_Witness ==
    /\ tok_call[1] = "split_nodes_delimiter"
    /\ Raised(tok_res)
    /\ Len(tok_nodes) > 1
    /\ HasUnmatched(tok_nodes, tok_call[2])

\* the spans a Plain text gives: its non-empty parts in order, the parts at
\* even (0-based) index Plain and those at odd index of the target type
Emitted(text, delimiter, text_type) ==
    LET parts == split(text, delimiter)
        keep == {i \in 1..Len(parts) : parts[i] # <<>>}
        nth(k) == CHOOSE i \in keep : Cardinality({j \in keep : j < i}) = k - 1
    IN  [k \in 1..Cardinality(keep) |->
            TextNode(parts[nth(k)],
                     IF (nth(k) - 1) % 2 = 0 THEN TextType_TEXT ELSE text_type,
                     None)]

RECURSIVE EmittedAll(_, _, _)
EmittedAll(nodes, delimiter, text_type) ==
    IF Len(nodes) = 0 THEN <<>>
    ELSE (IF IsPlain(nodes[1]) THEN Emitted(text_of(nodes[1]), delimiter, text_type)
          ELSE <<nodes[1]>>)
         \o EmittedAll(Tail(nodes), delimiter, text_type)

\* C9: for a Plain span whose text splits into an odd number of parts,
\* split_nodes_delimiter emits the non-empty parts in order, even-index parts
\* Plain and odd-index parts of the target type, and nothing for an empty
\* part; "**a** and **b**" on ** gives [Bold(a), Plain(" and "), Bold(b)].
C9_DelimiterSplit ==
    [][ (tok_call'[1] = "split_nodes_delimiter" /\ ~HasUnmatched(tok_nodes, tok_call'[2]))
        => /\ ~Raised(tok_res')
           /\ Value(tok_res') = EmittedAll(tok_nodes, tok_call'[2], tok_call'[3])
           /\ (tok_nodes = <<TextNode(Str_a_and_b, TextType_TEXT, None)>>
               /\ tok_call'[2] = <<"*", "*">>)
              => Value(tok_res') = << TextNode(<<"a">>, TextType_BOLD, None),
                                      TextNode(<<" ", "a", "n", "d", " ">>, TextType_TEXT, None),
                                      TextNode(<<"b">>, TextType_BOLD, None) >>
      ]_vars

\* the ** stage has produced Bold(a), Plain(" and "), Bold(b)
C9_Witness ==
    /\ tok_call[1] = "split_nodes_delimiter" /\ tok_call[2] = <<"*", "*">>
    /\ ~Raised(tok_res)
    /\ tok_nodes = << TextNode(<<"a">>, TextType_BOLD, None),
                      TextNode(<<" ", "a", "n", "d", " ">>, TextType_TEXT, None),
                      TextNode(<<"b">>, TextType_BOLD, None) >>

\* what a stage call returns for a list
StageOn(call, nodes) ==
    IF call[1] = "split_nodes_image" THEN split_nodes_image(nodes)
    ELSE IF call[1] = "split_nodes_link" THEN split_nodes_link(nodes)
    ELSE Value(split_nodes_delimiter(nodes, call[2], call[3]))

\* the number of spans the stage emits for the first k spans of the list
RECURSIVE EmittedCount(_, _, _)
EmittedCount(call, nodes, k) ==
    IF k = 0 THEN 0
    ELSE EmittedCount(call, nodes, k - 1) + Len(StageOn(call, <<nodes[k]>>))

StageCalls == {"split_nodes_image", "split_nodes_link", "split_nodes_delimiter"}

\* C10: every tokenizer stage leaves each non-Plain span of its input
\* unchanged and at the same relative position in its output.
C10_NonPlainPassThrough ==
    [][ (tok_call'[1] \in StageCalls /\ ~Raised(tok_res'))
        => /\ Len(Value(tok_res')) = EmittedCount(tok_call', tok_nodes, Len(tok_nodes))
           /\ \A i \in 1..Len(tok_nodes) :
                ~IsPlain(tok_nodes[i])
                => /\ EmittedCount(tok_call', tok_nodes, i)
                        = EmittedCount(tok_call', tok_nodes, i - 1) + 1
                   /\ Value(tok_res')[EmittedCount(tok_call', tok_nodes, i)] = tok_nodes[i]
      ]_vars

\* split_nodes_image has run on a list holding a Bold span and found an image
C10_Witness ==
    /\ tok_call[1] = "split_nodes_image"
    /\ \E i \in 1..Len(tok_nodes) : text_type_of(tok_nodes[i]) = TextType_BOLD
    /\ \E i \in 1..Len(tok_nodes) : text_type_of(tok_nodes[i]) = TextType_IMAGE

\* the <<text, url>> pairs of the spans of a type, in order
RECURSIVE SpansOf(_, _)
SpansOf(nodes, text_type) ==
    IF Len(nodes) = 0 THEN <<>>
    ELSE (IF text_type_of(nodes[1]) = text_type
          THEN << <<text_of(nodes[1]), url_of(nodes[1])>> >> ELSE <<>>)
         \o SpansOf(Tail(nodes), text_type)

\* the <<alt, url>> pairs of the image tokens written in the Plain spans
RECURSIVE PlainImages(_)
PlainImages(nodes) ==
    IF Len(nodes) = 0 THEN <<>>
    ELSE (IF IsPlain(nodes[1]) THEN extract_markdown_images(text_of(nodes[1])) ELSE <<>>)
         \o PlainImages(Tail(nodes))

\* the links a list holds: the Link spans, and the [text](url) occurrences
\* not preceded by '!' written in the Plain spans
RECURSIVE LinksOf(_)
LinksOf(nodes) ==
    IF Len(nodes) = 0 THEN <<>>
    ELSE (IF IsPlain(nodes[1]) THEN extract_markdown_links(text_of(nodes[1]))
          ELSE IF text_type_of(nodes[1]) = TextType_LINK
          THEN << <<text_of(nodes[1]), url_of(nodes[1])>> >>
          ELSE <<>>)
         \o LinksOf(Tail(nodes))

\* C11: split_nodes_link makes no Link span of a [text](url) occurrence that
\* follows a '!': every image token of a Plain span stays verbatim inside the
\* Plain spans of the output, and the Link spans are exactly the occurrences
\* not preceded by '!', in source order.
C11_LinksIgnoreImages ==
    [][ tok_call'[1] = "split_nodes_link"
        => /\ PlainImages(tok_nodes') = PlainImages(tok_nodes)
           /\ SpansOf(tok_nodes', TextType_LINK) = LinksOf(tok_nodes)
      ]_vars

\* the text has none of the delimiter characters
NoDelimiter(text) == \A i \in 1..Len(text) : text[i] \notin {"*", "_", Backtick}

\* the text cut at its image tokens and at its [text](url) occurrences not
\* preceded by '!', scanned from index i; the Plain run in progress starts
\* at index start
RECURSIVE Segments(_, _, _)
Segments(text, i, start) ==
    IF i > Len(text)
    THEN IF start <= Len(text)
         THEN <<TextNode(SubSeq(text, start, Len(text)), TextType_TEXT, None)>> ELSE <<>>
    ELSE LET image == IF text[i] = "!" THEN bracket_match(text, i + 1) ELSE <<>>
             link == IF i > 1 /\ text[i - 1] = "!" THEN <<>> ELSE bracket_match(text, i)
             plain == IF start < i
                      THEN <<TextNode(SubSeq(text, start, i - 1), TextType_TEXT, None)>>
                      ELSE <<>>
         IN  IF image # <<>>
             THEN plain \o <<TextNode(image[1], TextType_IMAGE, image[2])>>
                  \o Segments(text, image[3] + 1, image[3] + 1)
             ELSE IF link # <<>>
             THEN plain \o <<TextNode(link[1], TextType_LINK, link[2])>>
                  \o Segments(text, link[3] + 1, link[3] + 1)
             ELSE Segments(text, i + 1, start)

\* [Image(a, x.png), Plain(" "), Link(b, y.com)]
Spans_image_x_link_y ==
    << TextNode(<<"a">>, TextType_IMAGE, <<"x", ".", "p", "n", "g">>),
       TextNode(<<" ">>, TextType_TEXT, None),
       TextNode(<<"b">>, TextType_LINK, <<"y", ".", "c", "o", "m">>) >>

\* C12: text_to_textnodes extracts images before links: the Image spans are
\* the image tokens of the text and the Link spans its [text](url)
\* occurrences not preceded by '!', so no image token becomes a Link; in a
\* text without delimiters images and links come in source order with the
\* literal text between them as Plain spans; "![a](x.png) [b](y.com)" gives
\* [Image(a, x.png), Plain(" "), Link(b, y.com)].
C12_ImagesBeforeLinks ==
    [][ (tok_call'[1] = "text_to_textnodes" /\ ~Raised(tok_res'))
        => /\ SpansOf(Value(tok_res'), TextType_IMAGE)
                = extract_markdown_images(text_of(tok_nodes[1]))
           /\ SpansOf(Value(tok_res'), TextType_LINK)
                = extract_markdown_links(text_of(tok_nodes[1]))
           /\ NoDelimiter(text_of(tok_nodes[1]))
              => Value(tok_res') = Segments(text_of(tok_nodes[1]), 1, 1)
           /\ text_of(tok_nodes[1]) = Str_image_x_link_y
              => Value(tok_res') = Spans_image_x_link_y
      ]_vars

\* text_to_textnodes has returned [Image(a, x.png), Plain(" "), Link(b, y.com)]
C12_Witness ==
    /\ tok_call[1] = "text_to_textnodes"
    /\ ~Raised(tok_res)
    /\ tok_nodes = Spans_image_x_link_y

\* the text is **x** for a non-empty x that holds no **, no image and no link
IsBoldOf(text, x) ==
    /\ x # <<>>
    /\ split(text, <<"*", "*">>) = <<<<>>, x, <<>>>>
    /\ extract_markdown_images(text) = <<>>
    /\ extract_markdown_links(text) = <<>>

\* C13: text_to_textnodes splits on ** before * and _: a text **x** gives the
\* single span Bold(x), and the * and _ characters inside x stay literal text
\* of the span; "**bold *and* italic**" gives [Bold("bold *and* italic")].
C13_BoldBeforeItalic ==
    [][ tok_call'[1] = "text_to_textnodes"
        => \A k \in 1..Len(text_of(tok_nodes[1])) :
             IsBoldOf(text_of(tok_nodes[1]), SubSeq(text_of(tok_nodes[1]), 3, k))
             => /\ ~Raised(tok_res')
                /\ Value(tok_res')
                     = <<TextNode(SubSeq(text_of(tok_nodes[1]), 3, k), TextType_BOLD, None)>>
      ]_vars

\* text_to_textnodes has returned the single span Bold("bold *and* italic")
C13_Witness ==
    /\ tok_call[1] = "text_to_textnodes"
    /\ ~Raised(tok_res)
    /\ tok_nodes = <<TextNode(SubSeq(Str_bold_and_italic, 3, Len(Str_bold_and_italic) - 2),
                              TextType_BOLD, None)>>

-----------------------------------------------------------------------------
(* The document assembler as a state machine: markdown_to_html_node splits *)
(* the document, builds the blocks one by one and wraps them; the caller   *)
(* renders the node it gets, as generate_page does.                        *)

DocAlphabet == {"#", " ", "\n", "a", "*", "-", ">", "1", "."}

\* "# T\n\nHello **world**"
Doc_heading_paragraph ==
    <<"#", " ", "T", "\n", "\n", "H", "e", "l", "l", "o", " ", "*", "*",
      "w", "o", "r", "l", "d", "*", "*">>

Html_heading_paragraph ==
    <<"<", "d", "i", "v", ">", "<", "h", "1", ">", "T", "<", "/", "h", "1",
      ">", "<", "p", ">", "H", "e", "l", "l", "o", " ", "<", "b", ">", "w",
      "o", "r", "l", "d", "<", "/", "b", ">", "<", "/", "p", ">", "<", "/",
      "d", "i", "v", ">">>

\* "- a\n- b"
Doc_list ==
    <<"-", " ", "a", "\n", "-", " ", "b">>

Html_list ==
    <<"<", "d", "i", "v", ">", "<", "u", "l", ">", "<", "l", "i", ">", "a",
      "<", "/", "l", "i", ">", "<", "l", "i", ">", "b", "<", "/", "l", "i",
      ">", "<", "/", "u", "l", ">", "<", "/", "d", "i", "v", ">">>

Html_empty_div ==
    <<"<", "d", "i", "v", ">", "<", "/", "d", "i", "v", ">">>

\* whitespace only
Doc_whitespace ==
    <<" ", "\n", "\t", "\n", "\n", " ">>

Doc_ordered ==
    <<"1", ".", " ", "a", "\n", "2", ".", " ", "b">>

Doc_code ==
    <<Backtick, Backtick, Backtick, "\n", "c", "\n", Backtick, Backtick,
      Backtick>>

Doc_quote ==
    <<">", " ", "q", "\n", ">", " ", "r">>

\* one block of every type
Doc_every_type ==
    <<"#", " ", "T", "\n", "\n", "-", " ", "a", "\n", "\n", "1", ".", " ",
      "x", "\n", "\n", ">", " ", "q", "\n", "\n", Backtick, Backtick,
      Backtick, "\n", "c", "\n", Backtick, Backtick, Backtick, "\n", "\n",
      "p", " ", "*", "i", "*">>

\* the second block has an unmatched *
Doc_second_block_fails ==
    <<"a", "\n", "\n", "*", "b", "\n", "\n", "c">>

\* a quote without content
Doc_empty_quote ==
    <<">">>

Doc_link_without_target ==
    <<"[", "a", "]", "(", ")">>

\* " \n\n a\nb \n\n\n\n c \n\n": blank pieces around two blocks
Doc_blank_pieces ==
    <<" ", "\n", "\n", " ", "a", "\n", "b", " ", "\n", "\n", "\n", "\n",
      " ", "c", " ", "\n", "\n">>

\* "\x0b# a\xa0\n\n\x1f\n\n1. \x0bb": blocks within white space that is neither
\* blank, tab nor newline
Doc_wide_whitespace ==
    <<"U+000B", "#", " ", "a", "U+00A0", "\n", "\n", "U+001F", "\n", "\n",
      "1", ".", " ", "U+000B", "b">>

SampleDocs ==
    { Doc_blank_pieces, Doc_heading_paragraph, Doc_list, Doc_whitespace, Doc_ordered, Doc_code,
      Doc_quote, Doc_every_type, Doc_second_block_fails, Doc_empty_quote,
      Doc_link_without_target, Doc_wide_whitespace }

Documents == Strings(DocAlphabet, MaxDocLen) \cup SampleDocs

Init ==
    /\ NodeIdle /\ TokIdle /\ BlkIdle /\ PageIdle
    /\ markdown \in Documents
    /\ blocks = <<>>
    /\ block_nodes = <<>>
    /\ doc_pc = "start"
    /\ doc_res = NoCall
    /\ html_res = NoCall

\* blocks = markdown_to_blocks(markdown)
SplitBlocks ==
    /\ doc_pc = "start"
    /\ blocks' = markdown_to_blocks(markdown)
    /\ doc_pc' = "loop"
    /\ UNCHANGED <<markdown, block_nodes, doc_res, html_res, node_vars, tok_vars, blk_vars, page_vars>>

\* one turn of the loop over blocks; an exception leaves the function
BuildBlock ==
    /\ doc_pc = "loop"
    /\ Len(block_nodes) < Len(blocks)
    /\ LET r == block_to_html_node(blocks[Len(block_nodes) + 1])
       IN  IF Raised(r)
           THEN /\ doc_res' = r
                /\ doc_pc' = "done"
                /\ UNCHANGED block_nodes
           ELSE /\ block_nodes' = Append(block_nodes, Value(r))
                /\ UNCHANGED <<doc_res, doc_pc>>
    /\ UNCHANGED <<markdown, blocks, html_res, node_vars, tok_vars, blk_vars, page_vars>>

\* the return after the loop
ReturnDocument ==
    /\ doc_pc = "loop"
    /\ Len(block_nodes) = Len(blocks)
    /\ doc_res' = wrap_block_nodes(block_nodes)
    /\ doc_pc' = "done"
    /\ UNCHANGED <<markdown, blocks, block_nodes, html_res, node_vars, tok_vars, blk_vars, page_vars>>

\* html_content = markdown_to_html_node(markdown).to_html()
RenderDocument ==
    /\ doc_pc = "done"
    /\ ~Raised(doc_res)
    /\ html_res' = to_html(Value(doc_res))
    /\ doc_pc' = "rendered"
    /\ UNCHANGED <<markdown, blocks, block_nodes, doc_res, node_vars, tok_vars, blk_vars, page_vars>>

Next == SplitBlocks \/ BuildBlock \/ ReturnDocument \/ RenderDocument

Spec == Init /\ [][Next]_vars

-----------------------------------------------------------------------------
(* Properties of the document assembler *)

\* the builder selected by the type of the block, applied to the block
Built(block) ==
    CASE block_to_block_type(block) = BlockType_HEADING -> heading_block_to_html(block)
      [] block_to_block_type(block) = BlockType_CODE -> code_block_to_html(block)
      [] block_to_block_type(block) = BlockType_QUOTE -> quote_block_to_html(block)
      [] block_to_block_type(block) = BlockType_UNORDERED_LIST
            -> unordered_list_block_to_html(block)
      [] block_to_block_type(block) = BlockType_ORDERED_LIST
            -> ordered_list_block_to_html(block)
      [] OTHER -> paragraph_block_to_html(block)

Returned == doc_pc \in {"done", "rendered"}

\* C1: for a document with at least one block, markdown_to_html_node returns
\* a div Parent whose children are one built node per block of
\* markdown_to_blocks, in source order, each built by the builder of the
\* block's type; it returns nothing when a builder raises.  The two examples
\* render to <div><h1>T</h1><p>Hello <b>world</b></p></div> and
\* <div><ul><li>a</li><li>b</li></ul></div>.
C1_DocumentIsDivOfBuiltBlocks ==
    /\ (Returned /\ Len(blocks) > 0)
       => /\ blocks = markdown_to_blocks(markdown)
          /\ IF \E i \in 1..Len(blocks) : Raised(Built(blocks[i]))
             THEN /\ Raised(doc_res)
                  /\ Error(doc_res) =
                        Error(Built(blocks[Min({i \in 1..Len(blocks) :
                                                  Raised(Built(blocks[i]))})]))
             ELSE /\ ~Raised(doc_res)
                  /\ IsParent(Value(doc_res))
                  /\ tag_of(Value(doc_res)) = Str_div
                  /\ props_of(Value(doc_res)) = NoProps
                  /\ Len(children_of(Value(doc_res))) = Len(blocks)
                  /\ \A i \in 1..Len(blocks) :
                        children_of(Value(doc_res))[i] = Value(Built(blocks[i]))
    /\ (doc_pc = "rendered" /\ markdown = Doc_heading_paragraph)
       => Value(html_res) = Html_heading_paragraph
    /\ (doc_pc = "rendered" /\ markdown = Doc_list)
       => Value(html_res) = Html_list

\* the heading-and-paragraph example has been built and rendered
C1_Witness ==
    /\ doc_pc = "rendered"
    /\ markdown = Doc_heading_paragraph
    /\ Len(blocks) = 2
    /\ Value(html_res) = Html_heading_paragraph

IsWhitespace(s) == \A i \in 1..Len(s) : s[i] \in Whitespace

\* C2: for a document that yields zero blocks (empty or whitespace only),
\* markdown_to_html_node returns a div Parent wrapping exactly one tagless
\* Leaf with empty value, never an error, and it renders to <div></div>.
C2_EmptyDocument ==
    /\ doc_pc # "start" => (Len(blocks) = 0 <=> IsWhitespace(markdown))
    /\ (Returned /\ Len(blocks) = 0)
       => /\ ~Raised(doc_res)
          /\ Value(doc_res) =
                HTMLNode("ParentNode", Str_div, None,
                         <<HTMLNode("LeafNode", None, <<>>, NoChildren, NoProps)>>,
                         NoProps)
          /\ doc_pc = "rendered"
             => ~Raised(html_res) /\ Value(html_res) = Html_empty_div

\* a whitespace-only document has been built and rendered
C2_Witness ==
    /\ doc_pc = "rendered"
    /\ Len(markdown) > 0 /\ IsWhitespace(markdown)
    /\ Value(html_res) = Html_empty_div

\* the str occurs in the text
Occurs(sub, text) == \E i \in 1..(Len(text) - Len(sub) + 1) : SubSeq(text, i, i + Len(sub) - 1) = sub

\* the pieces between the double newlines of the text, each trimmed
TrimmedPieces(text) ==
    [i \in 1..Len(split(text, <<"\n", "\n">>)) |-> strip(split(text, <<"\n", "\n">>)[i])]

\* C14: markdown_to_blocks returns, in source order, the pieces of the
\* document between double newlines, trimmed, without the pieces that are
\* empty once trimmed: no block is empty or begins or ends with whitespace,
\* and each block stands verbatim in the document, single newlines included.
C14_BlocksAreTrimmedPieces ==
    doc_pc \in {"loop", "done", "rendered"}
    => /\ blocks = SelectSeq(TrimmedPieces(markdown), LAMBDA piece : piece # <<>>)
       /\ join(<<"\n", "\n">>, split(markdown, <<"\n", "\n">>)) = markdown
       /\ \A i \in 1..Len(blocks) :
            /\ blocks[i] # <<>>
            /\ blocks[i][1] \notin Whitespace
            /\ blocks[i][Len(blocks[i])] \notin Whitespace
            /\ Occurs(blocks[i], markdown)

\* a document with blank pieces has been split in two blocks, the first
\* keeping its single newline
C14_Witness ==
    /\ doc_pc = "loop"
    /\ markdown = Doc_blank_pieces
    /\ blocks = << <<"a", "\n", "b">>, <<"c">> >>

-----------------------------------------------------------------------------
(* The block functions as a state machine: a str is trimmed as            *)
(* markdown_to_blocks trims a piece, classified by block_to_block_type, or *)
(* classified and built as in the loop of markdown_to_html_node.           *)

BlockAlphabet == {"#", " ", "\n", "a", "-", ">", "1", ".", Backtick}

MaxBlockLen == 4

\* lines of lists, quotes and paragraphs
BlockLines ==
    { <<"1", ".", " ", "a">>, <<"2", ".", " ", "a">>, <<"3", ".", " ", "b">>,
      <<"1", ".", "a">>, <<" ", "1", ".", " ", "a">>, <<"2", ".", " ">>,
      <<"-", " ", "a">>, <<">", "a">>, <<"a">> }

MaxLines == 3

\* every text of at least one and at most n of the lines
RECURSIVE LineTexts(_)
LineTexts(n) ==
    IF n = 1 THEN BlockLines
    ELSE LineTexts(n - 1) \cup {t \o <<"\n">> \o l : t \in LineTexts(n - 1), l \in BlockLines}

\* n '#' characters
Hashes(n) == [i \in 1..n |-> "#"]

\* headings of every level, and a line of seven hashes
HeadingTexts ==
    { Hashes(n) \o t : n \in 1..7,
                       t \in { <<" ", "a">>, <<"a">>, <<" ", "#", "a">>, <<" ", "a", " ", "#">>,
                               <<" ", " ", "a", " ">>, <<" ", "*", "a", "*">>, <<" ", "*", "a">>,
                               <<" ", "#", " ", "a">> } }

\* what stands between the fences: inline markup, matched and unmatched
FencedTexts ==
    Strings({"a", "*", Backtick, "\n"}, 2)
    \cup { <<"*", "*", "a">>, <<"_", "a">>, <<"a", "\n", "b">>, <<"p", "y", "\n", "*", "x">>,
           <<"*", "*", "b", "*", "*", " ", "_", "i", "_">>,
           Str_link_a_u, Str_image_a_u, <<"[", "a", "]", "(", ")">>,
           <<"a", ".", "\n", "b">> }

\* blocks that start with a fence
FenceTexts ==
    UNION { { Fence \o t \o Fence, Fence \o t, <<" ">> \o Fence \o t \o Fence \o <<" ">>,
              Fence \o <<"\n">> \o t \o <<"\n">> \o Fence,
              Fence \o <<"p", "y", "\n">> \o t \o <<"\n">> \o Fence,
              Fence \o <<" ", "\n">> \o t \o <<"\n", " ">> \o Fence \o <<"a">>,
              Fence \o <<"\n">> \o t } : t \in FencedTexts }

\* lines of a quote: one or two markers, space before and after the content,
\* a delimiter opened or closed on the line, a marker alone
QuoteLines ==
    { <<">", "a">>, <<">", " ", "a">>, <<">", ">", "a">>, <<">", " ", "a", " ">>,
      <<">", " ", "*", "a">>, <<">", " ", "b", "*">>, <<">">>, <<">", " ", " ", "b">> }

\* quotes of one and of two lines
QuoteTexts ==
    QuoteLines \cup { l \o <<"\n">> \o m : l \in QuoteLines, m \in QuoteLines }

\* paragraphs with spans of every kind, an empty target, an unmatched
\* delimiter
ParagraphTexts ==
    { Str_link_a_u, Str_image_a_u, <<"[", "a", "]", "(", ")">>, <<"!", "[", "a", "]", "(", ")">>,
      <<"*", "*", "b", "*", "*", " ", "_", "i", "_">>, <<"a", " ", Backtick, "c", Backtick>>,
      <<"a", "*">>, <<"a", "\n", "b">> }

\* blocks with white space other than blank, tab and newline, and with a
\* decimal digit other than 0..9
WideTexts ==
    { <<"U+000B", "a">>, <<"a", "U+00A0">>, <<"1", ".", " ", "U+000B", "a">>,
      <<"1", ".", "U+000B", "a">>, <<"U+0663", ".", " ", "a">>, <<"-", " ", "a", "U+0085">>,
      <<"#", " ", "a", "U+2003">>, <<">", "U+001C", "a">>,
      <<"1", ".", " ", "a", "\n", "U+001F", "\n", "2", ".", " ", "b">> }

BlockTexts ==
    Strings(BlockAlphabet, MaxBlockLen) \cup LineTexts(MaxLines) \cup HeadingTexts
    \cup FenceTexts \cup QuoteTexts \cup ParagraphTexts \cup WideTexts

BlkInit ==
    /\ NodeIdle /\ TokIdle /\ DocIdle /\ PageIdle
    /\ blk \in BlockTexts
    /\ blk_call = "none"
    /\ blk_res = NoCall

\* stripped = block.strip(), on the str as given
CallStrip ==
    /\ blk_call = "none"
    /\ blk' = strip(blk)
    /\ blk_call' = "strip"
    /\ blk_res' = Ok(strip(blk))
    /\ UNCHANGED <<node_vars, tok_vars, doc_vars, page_vars>>

\* block_type = block_to_block_type(block)
CallBlockToBlockType ==
    /\ blk_call' = "block_to_block_type"
    /\ blk_res' = Ok(block_to_block_type(blk))
    /\ UNCHANGED <<blk, node_vars, tok_vars, doc_vars, page_vars>>

\* one turn of the loop of markdown_to_html_node: the block is classified and
\* handed to the builder of its type
CallBlockToHtmlNode ==
    /\ blk_call' = "block_to_html_node"
    /\ blk_res' = block_to_html_node(blk)
    /\ UNCHANGED <<blk, node_vars, tok_vars, doc_vars, page_vars>>

\* strip_block_prefix(block, block_type), for each member of BlockType
CallStripBlockPrefix ==
    /\ \E block_type \in BlockTypes :
           blk_res' = Ok(strip_block_prefix(blk, block_type))
    /\ blk_call' = "strip_block_prefix"
    /\ UNCHANGED <<blk, node_vars, tok_vars, doc_vars, page_vars>>

BlkNext ==
    CallStrip \/ CallBlockToBlockType \/ CallBlockToHtmlNode \/ CallStripBlockPrefix

SpecBlock == BlkInit /\ [][BlkNext]_vars

-----------------------------------------------------------------------------
(* Properties of the block classifier *)

\* the lines of the block
Lines(b) == split(b, <<"\n">>)

\* the block is one line that begins with 1 to 6 '#' and then a space
IsHeadingLine(b) ==
    /\ \A i \in 1..Len(b) : b[i] # "\n"
    /\ \E h \in 1..6 : /\ Len(b) > h
                        /\ \A j \in 1..h : b[j] = "#"
                        /\ b[h + 1] = " "

\* the trimmed first line starts with three backticks
CodeCandidate(b) == startswith(strip(Lines(b)[1]), Fence)

EveryLineStarts(b, prefix) == \A i \in 1..Len(Lines(b)) : startswith(Lines(b)[i], prefix)

\* line i starts with the numeral i, a dot and a space, for every i from 1
NumberedLines(b) ==
    \A i \in 1..Len(Lines(b)) : startswith(Lines(b)[i], str_int(i) \o <<".", " ">>)

\* the result of the Quote, Unordered List, Ordered List, Paragraph checks
ListChecks(b) ==
    IF EveryLineStarts(b, <<">">>) THEN BlockType_QUOTE
    ELSE IF EveryLineStarts(b, <<"-", " ">>) THEN BlockType_UNORDERED_LIST
    ELSE IF NumberedLines(b) THEN BlockType_ORDERED_LIST
    ELSE BlockType_PARAGRAPH

\* C15: block_to_block_type returns one type for every str, Paragraph for the
\* empty and the whitespace-only one; Heading exactly for one line beginning
\* with 1 to 6 '#' and a space; Code only for a code candidate that is not a
\* heading; and for a block that is neither, or that loses its code
\* candidacy, what the Quote, Unordered List, Ordered List, Paragraph checks
\* give in this order.
C15_ClassifyTotalInOrder ==
    blk_call = "block_to_block_type"
    => /\ ~Raised(blk_res)
       /\ Value(blk_res) \in BlockTypes
       /\ (Len(blk) = 0 \/ IsWhitespace(blk)) => Value(blk_res) = BlockType_PARAGRAPH
       /\ Value(blk_res) = BlockType_HEADING <=> IsHeadingLine(blk)
       /\ Value(blk_res) = BlockType_CODE => (CodeCandidate(blk) /\ ~IsHeadingLine(blk))
       /\ (~IsHeadingLine(blk) /\ Value(blk_res) # BlockType_CODE)
          => Value(blk_res) = ListChecks(blk)

\* a three-line block has been classified Quote
C15_Witness ==
    /\ blk_call = "block_to_block_type"
    /\ Len(Lines(blk)) = 3
    /\ Value(blk_res) = BlockType_QUOTE

\* the block is one line whose trimmed text ends with three backticks and is
\* longer than 6, or several lines whose trimmed last line starts with three
\* backticks
IsFenced(b) ==
    \/ /\ Len(Lines(b)) = 1
       /\ endswith(strip(b), Fence)
       /\ Len(strip(b)) > 6
    \/ /\ Len(Lines(b)) > 1
       /\ startswith(strip(Lines(b)[Len(Lines(b))]), Fence)

\* C16: for a block that is not a heading and whose trimmed first line
\* starts with three backticks, block_to_block_type returns Code exactly when
\* the block is one line that also ends with three backticks and is longer
\* than 6, or has several lines and a trimmed last line starting with three
\* backticks, and Paragraph otherwise; three and six backticks alone are
\* Paragraph and the seven characters of a fenced x are Code.
C16_CodeClassification ==
    (blk_call = "block_to_block_type" /\ ~IsHeadingLine(blk) /\ CodeCandidate(blk))
    => /\ Value(blk_res) = IF IsFenced(blk) THEN BlockType_CODE ELSE BlockType_PARAGRAPH
       /\ blk = strip(blk)
          => (Value(blk_res) = BlockType_CODE
              <=> \/ Len(Lines(blk)) = 1 /\ endswith(blk, Fence) /\ Len(blk) > 6
                  \/ Len(Lines(blk)) > 1
                     /\ startswith(strip(Lines(blk)[Len(Lines(blk))]), Fence))
       /\ blk \in {Fence, Fence \o Fence} => Value(blk_res) = BlockType_PARAGRAPH
       /\ blk = Fence \o <<"a">> \o Fence => Value(blk_res) = BlockType_CODE

\* six backticks alone have been classified Paragraph
C16_Witness ==
    /\ blk_call = "block_to_block_type"
    /\ blk = Fence \o Fence
    /\ Value(blk_res) = BlockType_PARAGRAPH

\* "1. a\n3. b"
Str_skipped_number == <<"1", ".", " ", "a", "\n", "3", ".", " ", "b">>

\* C17: block_to_block_type returns Ordered List only if every line i,
\* counted from 1, starts with the numeral i, a dot and a space; "1. a\n3. b"
\* is Paragraph.
C17_OrderedListNumbering ==
    blk_call = "block_to_block_type"
    => /\ Value(blk_res) = BlockType_ORDERED_LIST => NumberedLines(blk)
       /\ blk = Str_skipped_number => Value(blk_res) = BlockType_PARAGRAPH

\* "1. a\n3. b" has been classified Paragraph
C17_Witness ==
    /\ blk_call = "block_to_block_type"
    /\ blk = Str_skipped_number
    /\ Value(blk_res) = BlockType_PARAGRAPH

\* C18: block_to_block_type gives a piece of a document (a str without a
\* double newline) that is not empty once trimmed the type it gives the
\* trimmed piece.
C18_ClassifyIgnoresTrim ==
    [][ (blk_call' = "strip" /\ blk' # <<>> /\ find(blk, <<"\n", "\n">>) = 0)
        => block_to_block_type(blk') = block_to_block_type(blk)
      ]_vars

-----------------------------------------------------------------------------
(* Properties of the block builders *)

\* the number of '#' characters a heading line begins with
HeadingLevel(b) ==
    CHOOSE h \in 1..6 : /\ Len(b) > h
                        /\ \A j \in 1..h : b[j] = "#"
                        /\ b[h + 1] = " "

\* the heading line without its leading hashes and the one space after
\* them, trimmed
HeadingContent(b) == strip(SubSeq(b, HeadingLevel(b) + 2, Len(b)))

\* C19: for a block classified Heading the builder returns a Parent h{level},
\* level being the number of leading '#', whose children are the
\* tokenization of the block without those hashes and the one space after
\* them, trimmed; a '#' of the content is kept.
C19_HeadingBuilder ==
    (blk_call = "block_to_html_node" /\ IsHeadingLine(blk))
    => blk_res = Then(text_to_children(HeadingContent(blk)),
                      LAMBDA children :
                          ParentNode_init(<<"h">> \o str_int(HeadingLevel(blk)), children,
                                          NoProps))

\* the block is classified Code
IsCodeBlock(b) == ~IsHeadingLine(b) /\ CodeCandidate(b) /\ IsFenced(b)

\* what stands between the fences, trimmed, without a first line that is a
\* bare language identifier followed by more lines
FencedContent(b) ==
    LET inner == strip(removesuffix(removeprefix(strip(b), Fence), Fence))
    IN  IF Len(Lines(inner)) > 1 /\ identifier_match(strip(Lines(inner)[1]))
        THEN strip(join(<<"\n">>, Tail(Lines(inner))))
        ELSE inner

\* C20: for a block classified Code the builder returns pre wrapping one code
\* Parent wrapping one tagless Leaf that holds the fenced content as it
\* stands in the block; the inline tokenizer is not run, so delimiters,
\* links and images in the code raise nothing and make no element.
C20_CodeBuilder ==
    (blk_call = "block_to_html_node" /\ IsCodeBlock(blk))
    => /\ ~Raised(blk_res)
       /\ Value(blk_res)
            = HTMLNode("ParentNode", <<"p", "r", "e">>, None,
                       << HTMLNode("ParentNode", <<"c", "o", "d", "e">>, None,
                                   << HTMLNode("LeafNode", None, FencedContent(blk),
                                               NoChildren, NoProps) >>,
                                   NoProps) >>,
                       NoProps)
       /\ Occurs(FencedContent(blk), blk)
       /\ to_html(Value(blk_res))
            = Ok(<<"<", "p", "r", "e", ">", "<", "c", "o", "d", "e", ">">>
                 \o FencedContent(blk)
                 \o <<"<", "/", "c", "o", "d", "e", ">", "<", "/", "p", "r", "e", ">">>)

\* a code block holding an unmatched ** has been built
C20_Witness ==
    /\ blk_call = "block_to_html_node"
    /\ blk = Fence \o <<"\n", "*", "*", "a", "\n">> \o Fence
    /\ ~Raised(blk_res)
    /\ Len(children_of(Value(blk_res))) = 1

\* the block is classified Quote
IsQuoteBlock(b) == block_to_block_type(b) = BlockType_QUOTE

\* the lines of b, each changed by f, joined with newline
JoinedLines(b, f(_)) == join(<<"\n">>, [i \in 1..Len(Lines(b)) |-> f(Lines(b)[i])])

\* a line without its first character and the whitespace after it
AfterMarker(line) == lstrip_chars(Tail(line), Whitespace)

\* the quote builder has returned a blockquote Parent whose children are the
\* nodes of the spans of one tokenization of content; an error of the
\* tokenizer is the builder's
QuoteBuiltFrom(content) ==
    IF Raised(text_to_textnodes(content))
    THEN blk_res = text_to_textnodes(content)
    ELSE /\ ~Raised(text_nodes_to_html_nodes(Value(text_to_textnodes(content)), 1, <<>>))
         /\ blk_res
              = Ok(HTMLNode("ParentNode",
                            <<"b", "l", "o", "c", "k", "q", "u", "o", "t", "e">>, None,
                            Value(text_nodes_to_html_nodes(Value(text_to_textnodes(content)),
                                                           1, <<>>)),
                            NoProps))

\* C21: for a block classified Quote the builder returns a blockquote Parent
\* whose children are one tokenization of the lines, each without its
\* leading '>' and the whitespace after it, joined with newline; a delimiter
\* pair opened on one line and closed on a later one is matched and a Plain
\* span can hold a newline.
C21_QuoteBuilder ==
    (blk_call = "block_to_html_node" /\ IsQuoteBlock(blk))
    => QuoteBuiltFrom(JoinedLines(blk, AfterMarker))

\* the block is classified Unordered List, Ordered List
IsUnorderedBlock(b) == block_to_block_type(b) = BlockType_UNORDERED_LIST
IsOrderedBlock(b) == block_to_block_type(b) = BlockType_ORDERED_LIST

\* a line of an unordered list without its "- ", trimmed
AfterDash(line) == strip(SubSeq(line, 3, Len(line)))

\* a line of an ordered list without its digits, dot and space, trimmed
AfterNumber(line) == strip(SubSeq(line, find(line, <<".">>) + 2, Len(line)))

\* the content of every line of b tokenizes to one node or more
ItemsTokenize(b, content(_)) ==
    \A i \in 1..Len(Lines(b)) :
        /\ ~Raised(text_to_children(content(Lines(b)[i])))
        /\ Len(Value(text_to_children(content(Lines(b)[i])))) > 0

\* the list builder has returned tag wrapping one li per line of b, in line
\* order, each li holding the tokenization of the content of its line
ListBuiltFrom(b, tag, content(_)) ==
    blk_res = Ok(HTMLNode("ParentNode", tag, None,
                          [i \in 1..Len(Lines(b)) |->
                              HTMLNode("ParentNode", <<"l", "i">>, None,
                                       Value(text_to_children(content(Lines(b)[i]))),
                                       NoProps)],
                          NoProps))

\* C22: for a block classified Unordered List (Ordered List) the builder
\* returns ul (ol) holding one li per line, in line order, each li holding
\* the tokenization, independent of the other lines, of its line without the
\* leading "- " ("digits. ") and nothing else; stated for blocks whose items
\* all tokenize to a node, the items compared without the whitespace at
\* their ends.
C22_ListBuilders ==
    blk_call = "block_to_html_node"
    => /\ (IsUnorderedBlock(blk) /\ ItemsTokenize(blk, AfterDash))
          => ListBuiltFrom(blk, <<"u", "l">>, AfterDash)
       /\ (IsOrderedBlock(blk) /\ ItemsTokenize(blk, AfterNumber))
          => ListBuiltFrom(blk, <<"o", "l">>, AfterNumber)

\* the block is classified Paragraph
IsParagraphBlock(b) == block_to_block_type(b) = BlockType_PARAGRAPH

\* the nodes of the spans, or one tagless Leaf with empty value for no span
ParagraphChildren(nodes) ==
    IF Len(nodes) = 0 THEN <<HTMLNode("LeafNode", None, <<>>, NoChildren, NoProps)>>
    ELSE nodes

\* C23: the paragraph builder returns p holding the nodes of the spans of
\* the block in order, and one tagless Leaf with empty value when there is
\* no span; so on every block on which tokenization succeeds the builder
\* succeeds and its Parent has one child or more.
C23_ParagraphBuilder ==
    (blk_call = "block_to_html_node" /\ IsParagraphBlock(blk))
    => /\ ~Raised(text_to_children(blk))
          => blk_res = Ok(HTMLNode("ParentNode", <<"p">>, None,
                                   ParagraphChildren(Value(text_to_children(blk))),
                                   NoProps))
       /\ ~Raised(text_to_textnodes(blk))
          => (~Raised(blk_res) /\ Len(children_of(Value(blk_res))) >= 1)

\* C23, first half: whenever the nodes of the spans are built, the paragraph
\* is p holding them, or the one empty Leaf
C23_ParagraphOfNodes ==
    (blk_call = "block_to_html_node" /\ IsParagraphBlock(blk)
        /\ ~Raised(text_to_children(blk)))
    => blk_res = Ok(HTMLNode("ParentNode", <<"p">>, None,
                             ParagraphChildren(Value(text_to_children(blk))), NoProps))

-----------------------------------------------------------------------------
(* Node building: one span, or one text, turned into nodes *)

\* texts, kinds and urls of the spans handed to node building; "unknown" is a
\* kind that is none of the six
SpanTexts == { <<>>, <<"a">>, <<"a", " ", "b">> }
SpanTypes ==
    { TextType_TEXT, TextType_BOLD, TextType_ITALIC, TextType_CODE, TextType_LINK,
      TextType_IMAGE, "unknown" }
SpanUrls == { None, <<>>, <<"u">> }

Spans ==
    { TextNode(t, ty, u) : t \in SpanTexts, ty \in SpanTypes, u \in SpanUrls }
    \cup { TextNode(t, TextType_TEXT, None) : t \in TokTexts }

\* objects that are no TextNode: a Leaf, a node of the base class, a Parent
NotSpans ==
    { Value(LeafNode_init(<<"b">>, <<"x">>, NoProps)),
      Value(HTMLNode_init(<<"t", "e", "x", "t">>, <<"x">>, NoChildren, NoProps)),
      Value(ParentNode_init(<<"b", "o", "l", "d">>,
                            <<Value(LeafNode_init(None, <<"y">>, NoProps))>>, NoProps)) }

SpanInit ==
    /\ NodeIdle /\ DocIdle /\ BlkIdle /\ PageIdle
    /\ \E n \in Spans \cup NotSpans : tok_nodes = <<n>>
    /\ tok_call = <<"none", <<>>, "">>
    /\ tok_res = NoCall

\* html_node = text_node_to_html_node(text_node)
CallTextNodeToHtmlNode ==
    /\ tok_call[1] = "none"
    /\ tok_call' = <<"text_node_to_html_node", <<>>, "">>
    /\ tok_res' = text_node_to_html_node(tok_nodes[1])
    /\ UNCHANGED <<tok_nodes, node_vars, doc_vars, blk_vars, page_vars>>

\* children = text_to_children(text), on the text of a Plain span
CallTextToChildren ==
    /\ tok_call[1] = "none"
    /\ isinstance_TextNode(tok_nodes[1])
    /\ text_type_of(tok_nodes[1]) = TextType_TEXT
    /\ tok_call' = <<"text_to_children", <<>>, "">>
    /\ tok_res' = text_to_children(text_of(tok_nodes[1]))
    /\ UNCHANGED <<tok_nodes, node_vars, doc_vars, blk_vars, page_vars>>

SpanNext ==
    \/ CallTextNodeToHtmlNode
    \/ CallTextToChildren

SpecSpan == SpanInit /\ [][SpanNext]_vars

\* a Leaf with the tag, value and attributes
Leaf(tag, value, props) == HTMLNode("LeafNode", tag, value, NoChildren, props)

\* the span has no url: none given, or an empty one
WithoutUrl(n) == url_of(n) = None \/ url_of(n) = <<>>

\* the call failed with a ValueError carrying the message
FailedWith(r, message) == Raised(r) /\ Exc(r) = "ValueError" /\ Error(r) = message

\* C25: node building maps a Plain, Bold, Italic, Code span to a tagless, b,
\* i, code Leaf carrying the text of the span, a Link span to an a Leaf with
\* href=url, an Image span to an img Leaf with empty value and src=url then
\* alt=text; a Link or Image span without a url (none, or empty) fails with
\* the ValueError of a missing link or image target, and a span of a kind
\* that is none of the six fails; so does an object that is no span.
C25_NodeBuilding ==
    tok_call[1] = "text_node_to_html_node"
    => LET n == tok_nodes[1]
       IN  CASE ~isinstance_TextNode(n)
                    -> FailedWith(tok_res, <<"Input must be a TextNode">>)
             [] text_type_of(n) = TextType_TEXT
                    -> tok_res = Ok(Leaf(None, text_of(n), NoProps))
             [] text_type_of(n) = TextType_BOLD
                    -> tok_res = Ok(Leaf(<<"b">>, text_of(n), NoProps))
             [] text_type_of(n) = TextType_ITALIC
                    -> tok_res = Ok(Leaf(<<"i">>, text_of(n), NoProps))
             [] text_type_of(n) = TextType_CODE
                    -> tok_res = Ok(Leaf(<<"c", "o", "d", "e">>, text_of(n), NoProps))
             [] text_type_of(n) = TextType_LINK /\ WithoutUrl(n)
                    -> FailedWith(tok_res, <<"Link TextNode requires a url">>)
             [] text_type_of(n) = TextType_LINK /\ ~WithoutUrl(n)
                    -> tok_res = Ok(Leaf(<<"a">>, text_of(n), << <<Str_href, url_of(n)>> >>))
             [] text_type_of(n) = TextType_IMAGE /\ WithoutUrl(n)
                    -> FailedWith(tok_res, <<"Image TextNode requires a url">>)
             [] text_type_of(n) = TextType_IMAGE /\ ~WithoutUrl(n)
                    -> tok_res = Ok(Leaf(<<"i", "m", "g">>, <<>>,
                                         << <<Str_src, url_of(n)>>,
                                            <<Str_alt, text_of(n)>> >>))
             [] OTHER -> Raised(tok_res) /\ Exc(tok_res) = "ValueError"

\* an Image span with a url has been built into an img Leaf that renders
\* src before alt
C25_Witness ==
    /\ tok_call[1] = "text_node_to_html_node"
    /\ tok_nodes = <<TextNode(<<"a", " ", "b">>, TextType_IMAGE, <<"u">>)>>
    /\ ~Raised(tok_res)
    /\ to_html(Value(tok_res))
         = Ok(<<"<", "i", "m", "g", " ", "s", "r", "c", "=", "\"", "u", "\"", " ",
                "a", "l", "t", "=", "\"", "a", " ", "b", "\"", ">">>)

\* C30: every span the tokenizer emits can be turned into a node: on every
\* text on which text_to_textnodes succeeds, text_to_children succeeds too,
\* with one node per span, and raises for no missing link or image target.
C30_EmittedSpansBuild ==
    (tok_call[1] = "text_to_children"
        /\ ~Raised(text_to_textnodes(text_of(tok_nodes[1]))))
    => /\ ~Raised(tok_res)
       /\ Len(Value(tok_res)) = Len(Value(text_to_textnodes(text_of(tok_nodes[1]))))

-----------------------------------------------------------------------------
(* Properties of the builders inside the document assembler *)

\* the loop over the blocks was left by an exception of a builder
BlockFailed == doc_pc = "done" /\ Raised(doc_res) /\ Len(block_nodes) < Len(blocks)

\* no block of the document has an unmatched delimiter
BlocksTokenize == \A i \in 1..Len(blocks) : ~Raised(text_to_textnodes(blocks[i]))

\* C28: in a document whose blocks all tokenize, every Parent the heading,
\* quote, list and paragraph builders make has a child, so no block makes
\* markdown_to_html_node fail with the error of a Parent without children.
C28_NoChildlessParent ==
    (BlockFailed /\ BlocksTokenize)
    => Error(doc_res) # <<"ParentNode requires children">>

\* a Code block of three lines or more whose first and last lines are the
\* bare fence
IsBareFenced(b) ==
    /\ IsCodeBlock(b)
    /\ Len(Lines(b)) >= 3
    /\ Lines(b)[1] = Fence
    /\ Lines(b)[Len(Lines(b))] = Fence

\* the lines between the first and the last line of b, joined with newline
Between(b) == join(<<"\n">>, SubSeq(Lines(b), 2, Len(Lines(b)) - 1))

\* the text of the Leaf inside pre and code
CodeText(pre) == value_of(children_of(children_of(pre)[1])[1])

\* C29: the code builder loses no code: for a Code block of several lines
\* whose opening fence line is the three backticks alone, the text of the
\* code Leaf is the lines between the fences, in order (without the
\* whitespace around the whole), a first line made only of letters, digits,
\* '-' or '_' included.
C29_CodeKept ==
    (blk_call = "block_to_html_node" /\ IsBareFenced(blk))
    => /\ ~Raised(blk_res)
       /\ CodeText(Value(blk_res)) = strip(Between(blk))

-----------------------------------------------------------------------------
(* extract_title as a state machine: the function is called on a document *)

TitleAlphabet == {"#", " ", "a", "\n"}

Doc_Hi == <<"#", " ", "H", "i">>
Doc_h2_Hi == <<"#", "#", " ", "H", "i">>
Doc_Real_Title == <<"T", "e", "x", "t", "\n", "#", " ", "R", "e", "a", "l", " ", "T", "i", "t", "l", "e", "\n", "M", "o", "r", "e">>

\* the examples, two titles, a title after a tab, content that begins with '#'
TitleDocs ==
    Strings(TitleAlphabet, MaxDocLen)
    \cup { Doc_Hi, Doc_h2_Hi, Doc_Real_Title, <<"#", " ", "a", "\n", "\n", "#", " ", "b">>,
           <<"\t", "#", " ", "a">>, <<"#", " ", "#", "a", " ", "b">>, <<"a", "\n", "\n", "#", "#", "#", " ", "b">>,
           <<"U+000B", "#", " ", "a", "U+001F">>, <<"#", "U+00A0", "a">> }

TitleInit ==
    /\ NodeIdle /\ TokIdle /\ BlkIdle
    /\ markdown \in TitleDocs
    /\ blocks = <<>>
    /\ block_nodes = <<>>
    /\ doc_pc = "idle"
    /\ doc_res = NoCall
    /\ html_res = NoCall
    /\ PageIdle

\* title = extract_title(markdown)
CallExtractTitle ==
    /\ page_pc = "idle"
    /\ title_res' = extract_title(markdown)
    /\ page_pc' = "titled"
    /\ UNCHANGED <<fs, stdout, entry, argv, site_pc, site_res, src, dst, dir_path_content,
                   dest_dir_path, walk_dirs, root, files, from_path, template_path,
                   dest_path, basepath, template, final_html, page_res,
                   node_vars, tok_vars, doc_vars, blk_vars>>

TitleNext == CallExtractTitle

SpecTitle == TitleInit /\ [][TitleNext]_vars

\* the line, read without the whitespace around it, is a single '#', one
\* space, then content
IsTitleLine(line) ==
    /\ Len(strip(line)) > 2
    /\ strip(line)[1] = "#"
    /\ strip(line)[2] = " "

\* the numbers of the title lines of the document
TitleLines(md) == {i \in 1..Len(Lines(md)) : IsTitleLine(Lines(md)[i])}

\* what follows the '#' and the space of a title line, trimmed
TitleContent(line) == strip(SubSeq(strip(line), 3, Len(strip(line))))

\* C24: extract_title returns the content, trimmed, of the first line of the
\* document that is a single '#', one space, then content, whatever the
\* blocks are, and fails with ValueError "No h1 header found in Markdown"
\* exactly when the document has no such line; "# Hi" gives "Hi", "## Hi"
\* fails, "Text\n# Real Title\nMore" gives "Real Title".
C24_ExtractTitle ==
    /\ page_pc = "titled"
       => IF TitleLines(markdown) = {}
          THEN FailedWith(title_res, <<"No h1 header found in Markdown">>)
          ELSE title_res = Ok(TitleContent(Lines(markdown)[Min(TitleLines(markdown))]))
    /\ extract_title(Doc_Hi) = Ok(<<"H", "i">>)
    /\ Raised(extract_title(Doc_h2_Hi))
    /\ extract_title(Doc_Real_Title) = Ok(<<"R", "e", "a", "l", " ", "T", "i", "t", "l", "e">>)

-----------------------------------------------------------------------------
(* The file system, os, os.path and shutil *)

\* A file system is the set of the entries under the current directory.  An
\* entry is <<names, kind, content>>: names are the names on the way from the
\* current directory to the entry, kind is "dir" or "file", content is what a
\* file holds, character by character as UTF-8 decodes it, a byte that UTF-8
\* cannot decode standing for itself.  Paths are relative and hold no "..";
\* there are no symbolic links and no permission forbids anything.
Entry(names, kind, content) == <<names, kind, content>>

\* a byte that is not UTF-8
InvalidBytes == {"0xFF"}

Max(S) == CHOOSE m \in S : \A n \in S : n <= m

\* body(x) for x the value of v
Bind(v, body(_)) == CHOOSE r \in {body(x) : x \in {v}} : TRUE

\* s.rfind(c), 1-based; 0 when c does not occur
rfind(s, c) ==
    LET idx == {i \in 1..Len(s) : s[i] = c}
    IN  IF idx = {} THEN 0 ELSE Max(idx)

\* s.rstrip(chars)
rstrip_chars(s, chars) ==
    LET keep == {i \in 1..Len(s) : s[i] \notin chars}
    IN  IF keep = {} THEN <<>> ELSE SubSeq(s, 1, Max(keep))

\* a character written as its code point, "U+000B"
IsCodePoint(c) == Len(c) > 2 /\ SubSeq(c, 1, 2) = "U+"

\* int(h, 16) for the digits h, as a string
RECURSIVE hex_value(_)
hex_value(h) ==
    IF Len(h) = 0 THEN 0
    ELSE 16 * hex_value(SubSeq(h, 1, Len(h) - 1))
         + (CHOOSE k \in 0..15 :
                SubSeq("0123456789ABCDEF", k + 1, k + 1) = SubSeq(h, Len(h), Len(h)))

\* ord(c) of a character written as its code point
ord(c) == hex_value(SubSeq(c, 3, Len(c)))

\* '%0*x' % (width, n), character by character
RECURSIVE hex(_, _)
hex(n, width) ==
    IF width = 0 THEN <<>>
    ELSE hex(n \div 16, width - 1)
         \o <<SubSeq("0123456789abcdef", (n % 16) + 1, (n % 16) + 1)>>

\* a lone surrogate, which UTF-8 cannot encode
IsSurrogate(c) == IsCodePoint(c) /\ ord(c) \in 55296..57343

\* the bytes UTF-8 writes a character with; a character written as itself
\* is one of ASCII, and so is the backtick
utf8_len(c) ==
    IF ~IsCodePoint(c) THEN 1
    ELSE IF ord(c) < 128 THEN 1
    ELSE IF ord(c) < 2048 THEN 2
    ELSE IF ord(c) < 65536 THEN 3
    ELSE 4

\* len(s.encode('utf-8'))
RECURSIVE utf8_size(_)
utf8_size(s) == IF Len(s) = 0 THEN 0 ELSE utf8_len(s[1]) + utf8_size(Tail(s))

\* the code points str.isprintable() refuses (Unicode 14.0.0): the controls,
\* the format characters, the surrogates, the private use, the separators
\* other than the space, and the code points that are not assigned
NotPrintableRanges ==
    { <<0, 31>>, <<127, 160>>, <<173, 173>>, <<888, 889>>, <<896, 899>>,
      <<907, 907>>, <<909, 909>>, <<930, 930>>, <<1328, 1328>>,
      <<1367, 1368>>, <<1419, 1420>>, <<1424, 1424>>, <<1480, 1487>>,
      <<1515, 1518>>, <<1525, 1541>>, <<1564, 1564>>, <<1757, 1757>>,
      <<1806, 1807>>, <<1867, 1868>>, <<1970, 1983>>, <<2043, 2044>>,
      <<2094, 2095>>, <<2111, 2111>>, <<2140, 2141>>, <<2143, 2143>>,
      <<2155, 2159>>, <<2191, 2199>>, <<2274, 2274>>, <<2436, 2436>>,
      <<2445, 2446>>, <<2449, 2450>>, <<2473, 2473>>, <<2481, 2481>>,
      <<2483, 2485>>, <<2490, 2491>>, <<2501, 2502>>, <<2505, 2506>>,
      <<2511, 2518>>, <<2520, 2523>>, <<2526, 2526>>, <<2532, 2533>>,
      <<2559, 2560>>, <<2564, 2564>>, <<2571, 2574>>, <<2577, 2578>>,
      <<2601, 2601>>, <<2609, 2609>>, <<2612, 2612>>, <<2615, 2615>>,
      <<2618, 2619>>, <<2621, 2621>>, <<2627, 2630>>, <<2633, 2634>>,
      <<2638, 2640>>, <<2642, 2648>>, <<2653, 2653>>, <<2655, 2661>>,
      <<2679, 2688>>, <<2692, 2692>>, <<2702, 2702>>, <<2706, 2706>>,
      <<2729, 2729>>, <<2737, 2737>>, <<2740, 2740>>, <<2746, 2747>>,
      <<2758, 2758>>, <<2762, 2762>>, <<2766, 2767>>, <<2769, 2783>>,
      <<2788, 2789>>, <<2802, 2808>>, <<2816, 2816>>, <<2820, 2820>>,
      <<2829, 2830>>, <<2833, 2834>>, <<2857, 2857>>, <<2865, 2865>>,
      <<2868, 2868>>, <<2874, 2875>>, <<2885, 2886>>, <<2889, 2890>>,
      <<2894, 2900>>, <<2904, 2907>>, <<2910, 2910>>, <<2916, 2917>>,
      <<2936, 2945>>, <<2948, 2948>>, <<2955, 2957>>, <<2961, 2961>>,
      <<2966, 2968>>, <<2971, 2971>>, <<2973, 2973>>, <<2976, 2978>>,
      <<2981, 2983>>, <<2987, 2989>>, <<3002, 3005>>, <<3011, 3013>>,
      <<3017, 3017>>, <<3022, 3023>>, <<3025, 3030>>, <<3032, 3045>>,
      <<3067, 3071>>, <<3085, 3085>>, <<3089, 3089>>, <<3113, 3113>>,
      <<3130, 3131>>, <<3141, 3141>>, <<3145, 3145>>, <<3150, 3156>>,
      <<3159, 3159>>, <<3163, 3164>>, <<3166, 3167>>, <<3172, 3173>>,
      <<3184, 3190>>, <<3213, 3213>>, <<3217, 3217>>, <<3241, 3241>>,
      <<3252, 3252>>, <<3258, 3259>>, <<3269, 3269>>, <<3273, 3273>>,
      <<3278, 3284>>, <<3287, 3292>>, <<3295, 3295>>, <<3300, 3301>>,
      <<3312, 3312>>, <<3315, 3327>>, <<3341, 3341>>, <<3345, 3345>>,
      <<3397, 3397>>, <<3401, 3401>>, <<3408, 3411>>, <<3428, 3429>>,
      <<3456, 3456>>, <<3460, 3460>>, <<3479, 3481>>, <<3506, 3506>>,
      <<3516, 3516>>, <<3518, 3519>>, <<3527, 3529>>, <<3531, 3534>>,
      <<3541, 3541>>, <<3543, 3543>>, <<3552, 3557>>, <<3568, 3569>>,
      <<3573, 3584>>, <<3643, 3646>>, <<3676, 3712>>, <<3715, 3715>>,
      <<3717, 3717>>, <<3723, 3723>>, <<3748, 3748>>, <<3750, 3750>>,
      <<3774, 3775>>, <<3781, 3781>>, <<3783, 3783>>, <<3790, 3791>>,
      <<3802, 3803>>, <<3808, 3839>>, <<3912, 3912>>, <<3949, 3952>>,
      <<3992, 3992>>, <<4029, 4029>>, <<4045, 4045>>, <<4059, 4095>>,
      <<4294, 4294>>, <<4296, 4300>>, <<4302, 4303>>, <<4681, 4681>>,
      <<4686, 4687>>, <<4695, 4695>>, <<4697, 4697>>, <<4702, 4703>>,
      <<4745, 4745>>, <<4750, 4751>>, <<4785, 4785>>, <<4790, 4791>>,
      <<4799, 4799>>, <<4801, 4801>>, <<4806, 4807>>, <<4823, 4823>>,
      <<4881, 4881>>, <<4886, 4887>>, <<4955, 4956>>, <<4989, 4991>>,
      <<5018, 5023>>, <<5110, 5111>>, <<5118, 5119>>, <<5760, 5760>>,
      <<5789, 5791>>, <<5881, 5887>>, <<5910, 5918>>, <<5943, 5951>>,
      <<5972, 5983>>, <<5997, 5997>>, <<6001, 6001>>, <<6004, 6015>>,
      <<6110, 6111>>, <<6122, 6127>>, <<6138, 6143>>, <<6158, 6158>>,
      <<6170, 6175>>, <<6265, 6271>>, <<6315, 6319>>, <<6390, 6399>>,
      <<6431, 6431>>, <<6444, 6447>>, <<6460, 6463>>, <<6465, 6467>>,
      <<6510, 6511>>, <<6517, 6527>>, <<6572, 6575>>, <<6602, 6607>>,
      <<6619, 6621>>, <<6684, 6685>>, <<6751, 6751>>, <<6781, 6782>>,
      <<6794, 6799>>, <<6810, 6815>>, <<6830, 6831>>, <<6863, 6911>>,
      <<6989, 6991>>, <<7039, 7039>>, <<7156, 7163>>, <<7224, 7226>>,
      <<7242, 7244>>, <<7305, 7311>>, <<7355, 7356>>, <<7368, 7375>>,
      <<7419, 7423>>, <<7958, 7959>>, <<7966, 7967>>, <<8006, 8007>>,
      <<8014, 8015>>, <<8024, 8024>>, <<8026, 8026>>, <<8028, 8028>>,
      <<8030, 8030>>, <<8062, 8063>>, <<8117, 8117>>, <<8133, 8133>>,
      <<8148, 8149>>, <<8156, 8156>>, <<8176, 8177>>, <<8181, 8181>>,
      <<8191, 8207>>, <<8232, 8239>>, <<8287, 8303>>, <<8306, 8307>>,
      <<8335, 8335>>, <<8349, 8351>>, <<8385, 8399>>, <<8433, 8447>>,
      <<8588, 8591>>, <<9255, 9279>>, <<9291, 9311>>, <<11124, 11125>>,
      <<11158, 11158>>, <<11508, 11512>>, <<11558, 11558>>, <<11560, 11564>>,
      <<11566, 11567>>, <<11624, 11630>>, <<11633, 11646>>, <<11671, 11679>>,
      <<11687, 11687>>, <<11695, 11695>>, <<11703, 11703>>, <<11711, 11711>>,
      <<11719, 11719>>, <<11727, 11727>>, <<11735, 11735>>, <<11743, 11743>>,
      <<11870, 11903>>, <<11930, 11930>>, <<12020, 12031>>, <<12246, 12271>>,
      <<12284, 12288>>, <<12352, 12352>>, <<12439, 12440>>, <<12544, 12548>>,
      <<12592, 12592>>, <<12687, 12687>>, <<12772, 12783>>, <<12831, 12831>>,
      <<42125, 42127>>, <<42183, 42191>>, <<42540, 42559>>, <<42744, 42751>>,
      <<42955, 42959>>, <<42962, 42962>>, <<42964, 42964>>, <<42970, 42993>>,
      <<43053, 43055>>, <<43066, 43071>>, <<43128, 43135>>, <<43206, 43213>>,
      <<43226, 43231>>, <<43348, 43358>>, <<43389, 43391>>, <<43470, 43470>>,
      <<43482, 43485>>, <<43519, 43519>>, <<43575, 43583>>, <<43598, 43599>>,
      <<43610, 43611>>, <<43715, 43738>>, <<43767, 43776>>, <<43783, 43784>>,
      <<43791, 43792>>, <<43799, 43807>>, <<43815, 43815>>, <<43823, 43823>>,
      <<43884, 43887>>, <<44014, 44015>>, <<44026, 44031>>, <<55204, 55215>>,
      <<55239, 55242>>, <<55292, 63743>>, <<64110, 64111>>, <<64218, 64255>>,
      <<64263, 64274>>, <<64280, 64284>>, <<64311, 64311>>, <<64317, 64317>>,
      <<64319, 64319>>, <<64322, 64322>>, <<64325, 64325>>, <<64451, 64466>>,
      <<64912, 64913>>, <<64968, 64974>>, <<64976, 65007>>, <<65050, 65055>>,
      <<65107, 65107>>, <<65127, 65127>>, <<65132, 65135>>, <<65141, 65141>>,
      <<65277, 65280>>, <<65471, 65473>>, <<65480, 65481>>, <<65488, 65489>>,
      <<65496, 65497>>, <<65501, 65503>>, <<65511, 65511>>, <<65519, 65531>>,
      <<65534, 65535>>, <<65548, 65548>>, <<65575, 65575>>, <<65595, 65595>>,
      <<65598, 65598>>, <<65614, 65615>>, <<65630, 65663>>, <<65787, 65791>>,
      <<65795, 65798>>, <<65844, 65846>>, <<65935, 65935>>, <<65949, 65951>>,
      <<65953, 65999>>, <<66046, 66175>>, <<66205, 66207>>, <<66257, 66271>>,
      <<66300, 66303>>, <<66340, 66348>>, <<66379, 66383>>, <<66427, 66431>>,
      <<66462, 66462>>, <<66500, 66503>>, <<66518, 66559>>, <<66718, 66719>>,
      <<66730, 66735>>, <<66772, 66775>>, <<66812, 66815>>, <<66856, 66863>>,
      <<66916, 66926>>, <<66939, 66939>>, <<66955, 66955>>, <<66963, 66963>>,
      <<66966, 66966>>, <<66978, 66978>>, <<66994, 66994>>, <<67002, 67002>>,
      <<67005, 67071>>, <<67383, 67391>>, <<67414, 67423>>, <<67432, 67455>>,
      <<67462, 67462>>, <<67505, 67505>>, <<67515, 67583>>, <<67590, 67591>>,
      <<67593, 67593>>, <<67638, 67638>>, <<67641, 67643>>, <<67645, 67646>>,
      <<67670, 67670>>, <<67743, 67750>>, <<67760, 67807>>, <<67827, 67827>>,
      <<67830, 67834>>, <<67868, 67870>>, <<67898, 67902>>, <<67904, 67967>>,
      <<68024, 68027>>, <<68048, 68049>>, <<68100, 68100>>, <<68103, 68107>>,
      <<68116, 68116>>, <<68120, 68120>>, <<68150, 68151>>, <<68155, 68158>>,
      <<68169, 68175>>, <<68185, 68191>>, <<68256, 68287>>, <<68327, 68330>>,
      <<68343, 68351>>, <<68406, 68408>>, <<68438, 68439>>, <<68467, 68471>>,
      <<68498, 68504>>, <<68509, 68520>>, <<68528, 68607>>, <<68681, 68735>>,
      <<68787, 68799>>, <<68851, 68857>>, <<68904, 68911>>, <<68922, 69215>>,
      <<69247, 69247>>, <<69290, 69290>>, <<69294, 69295>>, <<69298, 69375>>,
      <<69416, 69423>>, <<69466, 69487>>, <<69514, 69551>>, <<69580, 69599>>,
      <<69623, 69631>>, <<69710, 69713>>, <<69750, 69758>>, <<69821, 69821>>,
      <<69827, 69839>>, <<69865, 69871>>, <<69882, 69887>>, <<69941, 69941>>,
      <<69960, 69967>>, <<70007, 70015>>, <<70112, 70112>>, <<70133, 70143>>,
      <<70162, 70162>>, <<70207, 70271>>, <<70279, 70279>>, <<70281, 70281>>,
      <<70286, 70286>>, <<70302, 70302>>, <<70314, 70319>>, <<70379, 70383>>,
      <<70394, 70399>>, <<70404, 70404>>, <<70413, 70414>>, <<70417, 70418>>,
      <<70441, 70441>>, <<70449, 70449>>, <<70452, 70452>>, <<70458, 70458>>,
      <<70469, 70470>>, <<70473, 70474>>, <<70478, 70479>>, <<70481, 70486>>,
      <<70488, 70492>>, <<70500, 70501>>, <<70509, 70511>>, <<70517, 70655>>,
      <<70748, 70748>>, <<70754, 70783>>, <<70856, 70863>>, <<70874, 71039>>,
      <<71094, 71095>>, <<71134, 71167>>, <<71237, 71247>>, <<71258, 71263>>,
      <<71277, 71295>>, <<71354, 71359>>, <<71370, 71423>>, <<71451, 71452>>,
      <<71468, 71471>>, <<71495, 71679>>, <<71740, 71839>>, <<71923, 71934>>,
      <<71943, 71944>>, <<71946, 71947>>, <<71956, 71956>>, <<71959, 71959>>,
      <<71990, 71990>>, <<71993, 71994>>, <<72007, 72015>>, <<72026, 72095>>,
      <<72104, 72105>>, <<72152, 72153>>, <<72165, 72191>>, <<72264, 72271>>,
      <<72355, 72367>>, <<72441, 72703>>, <<72713, 72713>>, <<72759, 72759>>,
      <<72774, 72783>>, <<72813, 72815>>, <<72848, 72849>>, <<72872, 72872>>,
      <<72887, 72959>>, <<72967, 72967>>, <<72970, 72970>>, <<73015, 73017>>,
      <<73019, 73019>>, <<73022, 73022>>, <<73032, 73039>>, <<73050, 73055>>,
      <<73062, 73062>>, <<73065, 73065>>, <<73103, 73103>>, <<73106, 73106>>,
      <<73113, 73119>>, <<73130, 73439>>, <<73465, 73647>>, <<73649, 73663>>,
      <<73714, 73726>>, <<74650, 74751>>, <<74863, 74863>>, <<74869, 74879>>,
      <<75076, 77711>>, <<77811, 77823>>, <<78895, 82943>>, <<83527, 92159>>,
      <<92729, 92735>>, <<92767, 92767>>, <<92778, 92781>>, <<92863, 92863>>,
      <<92874, 92879>>, <<92910, 92911>>, <<92918, 92927>>, <<92998, 93007>>,
      <<93018, 93018>>, <<93026, 93026>>, <<93048, 93052>>, <<93072, 93759>>,
      <<93851, 93951>>, <<94027, 94030>>, <<94088, 94094>>, <<94112, 94175>>,
      <<94181, 94191>>, <<94194, 94207>>, <<100344, 100351>>,
      <<101590, 101631>>, <<101641, 110575>>, <<110580, 110580>>,
      <<110588, 110588>>, <<110591, 110591>>, <<110883, 110927>>,
      <<110931, 110947>>, <<110952, 110959>>, <<111356, 113663>>,
      <<113771, 113775>>, <<113789, 113791>>, <<113801, 113807>>,
      <<113818, 113819>>, <<113824, 118527>>, <<118574, 118575>>,
      <<118599, 118607>>, <<118724, 118783>>, <<119030, 119039>>,
      <<119079, 119080>>, <<119155, 119162>>, <<119275, 119295>>,
      <<119366, 119519>>, <<119540, 119551>>, <<119639, 119647>>,
      <<119673, 119807>>, <<119893, 119893>>, <<119965, 119965>>,
      <<119968, 119969>>, <<119971, 119972>>, <<119975, 119976>>,
      <<119981, 119981>>, <<119994, 119994>>, <<119996, 119996>>,
      <<120004, 120004>>, <<120070, 120070>>, <<120075, 120076>>,
      <<120085, 120085>>, <<120093, 120093>>, <<120122, 120122>>,
      <<120127, 120127>>, <<120133, 120133>>, <<120135, 120137>>,
      <<120145, 120145>>, <<120486, 120487>>, <<120780, 120781>>,
      <<121484, 121498>>, <<121504, 121504>>, <<121520, 122623>>,
      <<122655, 122879>>, <<122887, 122887>>, <<122905, 122906>>,
      <<122914, 122914>>, <<122917, 122917>>, <<122923, 123135>>,
      <<123181, 123183>>, <<123198, 123199>>, <<123210, 123213>>,
      <<123216, 123535>>, <<123567, 123583>>, <<123642, 123646>>,
      <<123648, 124895>>, <<124903, 124903>>, <<124908, 124908>>,
      <<124911, 124911>>, <<124927, 124927>>, <<125125, 125126>>,
      <<125143, 125183>>, <<125260, 125263>>, <<125274, 125277>>,
      <<125280, 126064>>, <<126133, 126208>>, <<126270, 126463>>,
      <<126468, 126468>>, <<126496, 126496>>, <<126499, 126499>>,
      <<126501, 126502>>, <<126504, 126504>>, <<126515, 126515>>,
      <<126520, 126520>>, <<126522, 126522>>, <<126524, 126529>>,
      <<126531, 126534>>, <<126536, 126536>>, <<126538, 126538>>,
      <<126540, 126540>>, <<126544, 126544>>, <<126547, 126547>>,
      <<126549, 126550>>, <<126552, 126552>>, <<126554, 126554>>,
      <<126556, 126556>>, <<126558, 126558>>, <<126560, 126560>>,
      <<126563, 126563>>, <<126565, 126566>>, <<126571, 126571>>,
      <<126579, 126579>>, <<126584, 126584>>, <<126589, 126589>>,
      <<126591, 126591>>, <<126602, 126602>>, <<126620, 126624>>,
      <<126628, 126628>>, <<126634, 126634>>, <<126652, 126703>>,
      <<126706, 126975>>, <<127020, 127023>>, <<127124, 127135>>,
      <<127151, 127152>>, <<127168, 127168>>, <<127184, 127184>>,
      <<127222, 127231>>, <<127406, 127461>>, <<127491, 127503>>,
      <<127548, 127551>>, <<127561, 127567>>, <<127570, 127583>>,
      <<127590, 127743>>, <<128728, 128732>>, <<128749, 128751>>,
      <<128765, 128767>>, <<128884, 128895>>, <<128985, 128991>>,
      <<129004, 129007>>, <<129009, 129023>>, <<129036, 129039>>,
      <<129096, 129103>>, <<129114, 129119>>, <<129160, 129167>>,
      <<129198, 129199>>, <<129202, 129279>>, <<129620, 129631>>,
      <<129646, 129647>>, <<129653, 129655>>, <<129661, 129663>>,
      <<129671, 129679>>, <<129709, 129711>>, <<129723, 129727>>,
      <<129734, 129743>>, <<129754, 129759>>, <<129768, 129775>>,
      <<129783, 129791>>, <<129939, 129939>>, <<129995, 130031>>,
      <<130042, 131071>>, <<173792, 173823>>, <<177977, 177983>>,
      <<178206, 178207>>, <<183970, 183983>>, <<191457, 194559>>,
      <<195102, 196607>>, <<201547, 917759>>, <<918000, 1114111>> }

\* how repr writes the character c of a string it puts between quote
repr_char(c, quote) ==
    IF c = "\\" THEN <<"\\", "\\">>
    ELSE IF c = quote THEN <<"\\", c>>
    ELSE IF c = "\t" THEN <<"\\", "t">>
    ELSE IF c = "\n" THEN <<"\\", "n">>
    ELSE IF c = "\r" THEN <<"\\", "r">>
    ELSE IF c = "\f" THEN <<"\\", "x", "0", "c">>
    ELSE IF IsCodePoint(c) /\ \E r \in NotPrintableRanges : ord(c) \in r[1]..r[2]
    THEN (IF ord(c) < 256 THEN <<"\\", "x">> \o hex(ord(c), 2)
          ELSE IF ord(c) < 65536 THEN <<"\\", "u">> \o hex(ord(c), 4)
          ELSE <<"\\", "U">> \o hex(ord(c), 8))
    ELSE <<c>>

\* repr(s) of a string: between single quotes, or between double quotes when
\* s holds a single quote and no double quote
repr(s) ==
    LET quote == IF (\E i \in 1..Len(s) : s[i] = "'") /\ ~(\E i \in 1..Len(s) : s[i] = "\"")
                 THEN "\"" ELSE "'"
    IN  <<quote>> \o join(<<>>, [i \in 1..Len(s) |-> repr_char(s[i], quote)]) \o <<quote>>

\* the names a path goes through
Names(p) == SelectSeq(split(p, <<"/">>), LAMBDA n : n # <<>> /\ n # <<".">>)

\* the path ends with a slash or with "/." and so asks for a directory
DirForm(p) ==
    LET parts == split(p, <<"/">>)
    IN  Len(parts) > 1 /\ parts[Len(parts)] \in {<<>>, <<".">>}

\* the last name of the path is "."
LastIsDot(p) ==
    LET parts == SelectSeq(split(p, <<"/">>), LAMBDA n : n # <<>>)
    IN  Len(parts) > 0 /\ parts[Len(parts)] = <<".">>

\* what stands at names: "dir", "file" or "absent"
Kind(fsys, names) ==
    IF names = <<>> THEN "dir"
    ELSE IF \E e \in fsys : e[1] = names THEN (CHOOSE e \in fsys : e[1] = names)[2]
    ELSE "absent"

\* what the file at names holds
Content(fsys, names) == (CHOOSE e \in fsys : e[1] = names)[3]

\* names lies below the directory at dir
IsUnder(names, dir) == Len(names) > Len(dir) /\ SubSeq(names, 1, Len(dir)) = dir

\* the kernel's walk along p: "dir" or "file" for what p names, "absent" when
\* only the last name is missing, "ENOENT" when p is empty or a name before
\* the last is missing, "ENOTDIR" when a file is followed by a name or asked
\* for as a directory
lookup(fsys, p) ==
    LET names == Names(p)
        notdir == {i \in 1..Len(names) : Kind(fsys, SubSeq(names, 1, i)) # "dir"}
    IN  IF p = <<>> THEN "ENOENT"
        ELSE IF notdir = {} THEN "dir"
        ELSE IF Kind(fsys, SubSeq(names, 1, Min(notdir))) = "absent"
        THEN (IF Min(notdir) = Len(names) THEN "absent" ELSE "ENOENT")
        ELSE IF Min(notdir) = Len(names) /\ ~DirForm(p) THEN "file"
        ELSE "ENOTDIR"

\* the OSError of an error number, as Python raises it for the path p; its
\* text ends with repr(p)
OSError(errno, p) ==
    IF errno = "ENOENT"
    THEN RaiseExc("FileNotFoundError", <<"[Errno 2] No such file or directory: ", repr(p)>>)
    ELSE IF errno = "EEXIST"
    THEN RaiseExc("FileExistsError", <<"[Errno 17] File exists: ", repr(p)>>)
    ELSE IF errno = "ENOTDIR"
    THEN RaiseExc("NotADirectoryError", <<"[Errno 20] Not a directory: ", repr(p)>>)
    ELSE IF errno = "EISDIR"
    THEN RaiseExc("IsADirectoryError", <<"[Errno 21] Is a directory: ", repr(p)>>)
    ELSE RaiseExc("OSError", <<"[Errno 22] Invalid argument: ", repr(p)>>)

\* os.path.exists(p) and os.path.isdir(p)
os_path_exists(fsys, p) == lookup(fsys, p) \in {"dir", "file"}
os_path_isdir(fsys, p) == lookup(fsys, p) = "dir"

\* os.path.split(p): <<head, tail>>
os_path_split(p) ==
    LET i == rfind(p, "/")
        head == SubSeq(p, 1, i)
    IN  <<IF \E j \in 1..Len(head) : head[j] # "/" THEN rstrip_chars(head, {"/"}) ELSE head,
          SubSeq(p, i + 1, Len(p))>>

os_path_dirname(p) == os_path_split(p)[1]

\* os.path.join(a, b)
os_path_join(a, b) ==
    IF startswith(b, <<"/">>) THEN b
    ELSE IF a = <<>> \/ endswith(a, <<"/">>) THEN a \o b
    ELSE a \o <<"/">> \o b

\* os.path.splitext(p): <<root, ext>>; the dots a name begins with are no
\* extension
os_path_splitext(p) ==
    LET sepIndex == rfind(p, "/")
        dotIndex == rfind(p, ".")
    IN  IF dotIndex > sepIndex /\ \E k \in (sepIndex + 1)..(dotIndex - 1) : p[k] # "."
        THEN <<SubSeq(p, 1, dotIndex - 1), SubSeq(p, dotIndex, Len(p))>>
        ELSE <<p, <<>>>>

\* os.path.relpath(path, start) for a path that is not empty
os_path_relpath(path, start) ==
    LET start_list == Names(start)
        path_list == Names(path)
        common == {i \in 0..Len(start_list) :
                      i <= Len(path_list) /\ SubSeq(start_list, 1, i) = SubSeq(path_list, 1, i)}
        i == Max(common)
        rel_list == [k \in 1..(Len(start_list) - i) |-> <<".", ".">>]
                    \o SubSeq(path_list, i + 1, Len(path_list))
    IN  IF rel_list = <<>> THEN <<".">> ELSE join(<<"/">>, rel_list)

\* f.read() of open(p, 'r', encoding='utf-8'): the text decoded, every line
\* end "\r\n" and "\r" read as "\n".  The error names the first byte that
\* cannot be decoded and the bytes before it; no character starts with a
\* byte of InvalidBytes.
decode(content) ==
    IF \E i \in 1..Len(content) : content[i] \in InvalidBytes
    THEN LET start == Min({i \in 1..Len(content) : content[i] \in InvalidBytes})
         IN  RaiseExc("UnicodeDecodeError",
                      <<"'utf-8' codec can't decode byte ",
                        <<"0", "x">> \o hex(hex_value(SubSeq(content[start], 3, 4)), 2),
                        " in position ", str_int(utf8_size(SubSeq(content, 1, start - 1))),
                        ": invalid start byte">>)
    ELSE Ok(replace(replace(content, <<"\r", "\n">>, <<"\n">>), <<"\r">>, <<"\n">>))

\* with open(p, 'r', encoding='utf-8') as f: f.read()
read_text(fsys, p) ==
    IF lookup(fsys, p) \in {"ENOENT", "absent"} THEN OSError("ENOENT", p)
    ELSE IF lookup(fsys, p) = "ENOTDIR" THEN OSError("ENOTDIR", p)
    ELSE IF lookup(fsys, p) = "dir" THEN OSError("EISDIR", p)
    ELSE decode(Content(fsys, Names(p)))

\* os.mkdir(p): <<outcome, file system after it>>
os_mkdir(fsys, p) ==
    LET q == rstrip_chars(p, {"/"})
    IN  IF lookup(fsys, q) = "ENOENT" \/ (lookup(fsys, q) = "absent" /\ DirForm(q))
        THEN <<OSError("ENOENT", p), fsys>>
        ELSE IF lookup(fsys, q) = "ENOTDIR" THEN <<OSError("ENOTDIR", p), fsys>>
        ELSE IF lookup(fsys, q) \in {"dir", "file"} THEN <<OSError("EEXIST", p), fsys>>
        ELSE <<Ok(None), fsys \cup {Entry(Names(q), "dir", <<>>)}>>

\* os.makedirs(name, exist_ok=exist_ok): <<outcome, file system after it>>.
\* The directory above is made first when it is not there, a FileExistsError
\* of that call is passed over, and a name that ends with "." is made by
\* then; the error of os.mkdir is passed over when exist_ok is set and name
\* is a directory.
RECURSIVE os_makedirs(_, _, _)
os_makedirs(fsys, name, exist_ok) ==
    LET ht == IF os_path_split(name)[2] = <<>>
              THEN os_path_split(os_path_split(name)[1])
              ELSE os_path_split(name)
        head == ht[1]
        tail == ht[2]
        above == head # <<>> /\ tail # <<>> /\ ~os_path_exists(fsys, head)
    IN  Bind(IF above THEN os_makedirs(fsys, head, exist_ok) ELSE <<Ok(None), fsys>>,
             LAMBDA up :
                 IF Raised(up[1]) /\ Exc(up[1]) # "FileExistsError" THEN up
                 ELSE IF above /\ tail = <<".">> THEN <<Ok(None), up[2]>>
                 ELSE Bind(os_mkdir(up[2], name),
                           LAMBDA made :
                               IF Raised(made[1])
                                  /\ (~exist_ok \/ ~os_path_isdir(up[2], name))
                               THEN made
                               ELSE <<Ok(None), made[2]>>))

\* open(p, 'w', encoding='utf-8'): the file is made, or emptied when it is
\* there; <<outcome, file system after it>>.  The names before the last, and
\* all of them when the last is ".", are walked as directories; a last name
\* followed by a slash is refused as a directory whatever stands there.
open_w(fsys, p) ==
    LET names == Names(p)
        walked == IF LastIsDot(p) THEN Len(names) ELSE Len(names) - 1
        notdir == {i \in 1..walked : Kind(fsys, SubSeq(names, 1, i)) # "dir"}
    IN  IF p = <<>> THEN <<OSError("ENOENT", p), fsys>>
        ELSE IF notdir # {}
        THEN (IF Kind(fsys, SubSeq(names, 1, Min(notdir))) = "absent"
              THEN <<OSError("ENOENT", p), fsys>>
              ELSE <<OSError("ENOTDIR", p), fsys>>)
        ELSE IF LastIsDot(p) \/ endswith(p, <<"/">>) \/ Kind(fsys, names) = "dir"
        THEN <<OSError("EISDIR", p), fsys>>
        ELSE <<Ok(None),
           {e \in fsys : e[1] # Names(p)} \cup {Entry(Names(p), "file", <<>>)}>>

\* f.write(text) and the end of the with block, for the file opened at p:
\* text that UTF-8 cannot encode is not written, and the error names the
\* first run of surrogates
write_text(fsys, p, text) ==
    IF \E i \in 1..Len(text) : IsSurrogate(text[i])
    THEN LET start == Min({i \in 1..Len(text) : IsSurrogate(text[i])})
             end == Min({j \in start..Len(text) :
                            j = Len(text) \/ ~IsSurrogate(text[j + 1])})
         IN  <<RaiseExc("UnicodeEncodeError",
                        IF end = start
                        THEN <<"'utf-8' codec can't encode character '",
                               <<"\\", "u">> \o hex(ord(text[start]), 4),
                               "' in position ", str_int(start - 1),
                               ": surrogates not allowed">>
                        ELSE <<"'utf-8' codec can't encode characters in position ",
                               str_int(start - 1), "-", str_int(end - 1),
                               ": surrogates not allowed">>), fsys>>
    ELSE <<Ok(None),
           {e \in fsys : e[1] # Names(p)} \cup {Entry(Names(p), "file", text)}>>

\* shutil.rmtree(p): <<outcome, file system after it>>.  What is in the
\* directory is removed first; os.rmdir then refuses a path whose last name
\* is ".", and the directory stays, empty.
shutil_rmtree(fsys, p) ==
    IF lookup(fsys, p) \in {"ENOENT", "absent"} THEN <<OSError("ENOENT", p), fsys>>
    ELSE IF lookup(fsys, p) \in {"ENOTDIR", "file"} THEN <<OSError("ENOTDIR", p), fsys>>
    ELSE IF LastIsDot(p)
    THEN <<OSError("EINVAL", p), {e \in fsys : ~IsUnder(e[1], Names(p))}>>
    ELSE <<Ok(None), {e \in fsys : e[1] # Names(p) /\ ~IsUnder(e[1], Names(p))}>>

\* shutil.copytree(src, dst) for directories of which neither lies in the
\* other: <<outcome, file system after it>>
shutil_copytree(fsys, source, dest) ==
    IF lookup(fsys, source) \in {"ENOENT", "absent"} THEN <<OSError("ENOENT", source), fsys>>
    ELSE IF lookup(fsys, source) \in {"ENOTDIR", "file"}
    THEN <<OSError("ENOTDIR", source), fsys>>
    ELSE Bind(os_makedirs(fsys, dest, FALSE),
              LAMBDA made :
                  IF Raised(made[1]) THEN made
                  ELSE <<Ok(dest),
                         made[2]
                         \cup { Entry(Names(dest)
                                      \o SubSeq(e[1], Len(Names(source)) + 1, Len(e[1])),
                                      e[2], e[3]) :
                                  e \in {f \in fsys : IsUnder(f[1], Names(source))} }>>)

\* the names of the files and of the directories in the directory at dir
FilesIn(fsys, dir) ==
    {e[1][Len(e[1])] : e \in {f \in fsys : f[2] = "file" /\ Len(f[1]) = Len(dir) + 1
                                          /\ IsUnder(f[1], dir)}}

DirsIn(fsys, dir) ==
    {e[1][Len(e[1])] : e \in {f \in fsys : f[2] = "dir" /\ Len(f[1]) = Len(dir) + 1
                                          /\ IsUnder(f[1], dir)}}

\* the orders in which a directory may list the names of S
Orders(S) ==
    {s \in [1..Cardinality(S) -> S] : \A i, j \in 1..Cardinality(S) : s[i] = s[j] => i = j}

-----------------------------------------------------------------------------
(* main.py as a state machine.  One of its functions is called; the file   *)
(* system is what the call finds.  generate_page reads its two files, has  *)
(* the document converted and rendered by the steps of the document        *)
(* assembler, extracts the title, fills the template, makes the directory  *)
(* and writes the file; an exception of a step leaves the function, and    *)
(* the functions that called it.                                           *)

\* the paths main names
Str_static == <<"s", "t", "a", "t", "i", "c">>
Str_docs == <<"d", "o", "c", "s">>
Str_content == <<"c", "o", "n", "t", "e", "n", "t">>
Str_template_html == <<"t", "e", "m", "p", "l", "a", "t", "e", ".", "h", "t", "m", "l">>
Str_md == <<".", "m", "d">>
Str_html == <<".", "h", "t", "m", "l">>

Doc_title_is_placeholder == <<"#", " ", "{", "{", " ", "C", "o", "n", "t", "e", "n", "t", " ", "}", "}">>
Doc_title_and_root_link == <<"#", " ", "T", "\n", "\n", "[", "a", "]", "(", "/", "x", ")">>
Doc_title_and_root_image == <<"#", " ", "T", "\n", "\n", "!", "[", "a", "]", "(", "/", "x", ")">>
Doc_title_and_text == <<"#", " ", "T", "\n", "\n", "H", "e", "l", "l", "o", " ", "*", "*", "w", "*", "*">>
Doc_text_before_title == <<"a", "\n", "\n", "#", " ", "T">>
Doc_title_and_unmatched == <<"#", " ", "T", "\n", "\n", "*", "a">>

\* documents with and without a title, that convert and that do not
PageDocs ==
    Strings(TitleAlphabet, MaxDocLen - 1)
    \cup { Doc_Hi, Doc_h2_Hi, Doc_Real_Title, Doc_title_is_placeholder,
           Doc_title_and_root_link, Doc_title_and_root_image, Doc_title_and_text,
           Doc_text_before_title, Doc_title_and_unmatched, Doc_empty_quote,
           Doc_link_without_target }

Tmpl_title_content == Str_Title \o <<"|">> \o Str_Content
Tmpl_twice == Str_Content \o Str_Title \o <<"|">> \o Str_Title \o Str_Content
Tmpl_root_link == <<"<", "a", " ", "h", "r", "e", "f", "=", "\"", "/", "\"", ">">> \o Str_Content
Tmpl_title_only == Str_Title

\* templates with each placeholder once, twice, not at all, and with a link
\* to the root
Templates ==
    { Tmpl_title_content, Tmpl_twice, Tmpl_root_link, Tmpl_title_only, <<"x">> }

\* base paths that end with '/', as main makes them
Basepaths == { <<"/">>, <<"/", "b", "/">> }

\* base paths that UTF-8 cannot encode, as sys.argv gives them for one byte
\* and for two bytes that are not UTF-8
Base_surrogate == <<"/", "U+DC80", "/">>
Base_surrogates == <<"/", "U+DC80", "U+DC80", "/">>

Path_in_md == <<"i", "n", ".", "m", "d">>
Path_t_html == <<"t", ".", "h", "t", "m", "l">>
Path_out_p_html == <<"o", "u", "t", "/", "p", ".", "h", "t", "m", "l">>

\* the two files generate_page reads, and nothing else
PageFs(d, t) ==
    { Entry(<<Path_in_md>>, "file", d), Entry(<<Path_t_html>>, "file", t) }

\* "# a\r\n\r\nb\rc": line ends of other systems
Doc_crlf == <<"#", " ", "a", "\r", "\n", "\r", "\n", "b", "\r", "c">>

\* the two files among files that cannot be decoded, a file with other line
\* ends, directories, and a page written before
VariantFs(d) ==
    PageFs(d, Tmpl_root_link \o <<"\r", "\n">> \o Str_Title)
    \cup { Entry(<<<<"b", "a", "d", ".", "m", "d">>>>, "file", <<"#", " ", "a", "0xFF">>),
           Entry(<<<<"c", "r", "l", "f", ".", "m", "d">>>>, "file", Doc_crlf),
           Entry(<<<<"b", "a", "d", ".", "h", "t", "m", "l">>>>, "file", <<"0xFF">>),
           Entry(<<<<"d", "i", "r">>>>, "dir", <<>>),
           Entry(<<<<"f">>>>, "file", <<"o", "l", "d">>),
           Entry(<<<<"o", "l", "d">>>>, "dir", <<>>),
           Entry(<<<<"o", "l", "d">>, <<"p", ".", "h", "t", "m", "l">>>>, "file", <<"o", "l", "d">>),
           Entry(<<<<"o", "l", "d">>, <<"d">>>>, "dir", <<>>) }

VariantDocs == { Doc_Hi, Doc_h2_Hi, Doc_title_and_unmatched }

FromPaths ==
    { Path_in_md, <<"m", "i", "s", "s", "i", "n", "g", ".", "m", "d">>, <<"d", "i", "r">>, <<"b", "a", "d", ".", "m", "d">>, <<"c", "r", "l", "f", ".", "m", "d">>,
      <<>>, <<"i", "n", ".", "m", "d", "/">> }

TemplatePaths ==
    { Path_t_html, <<"m", "i", "s", "s", "i", "n", "g", ".", "h", "t", "m", "l">>, <<"b", "a", "d", ".", "h", "t", "m", "l">>, <<"d", "i", "r">> }

\* destinations: in a directory to be made, without a directory, a directory
\* itself, a page written before, below a file, the template, "." in a
\* directory to be made
DestPaths ==
    { Path_out_p_html, <<"p", ".", "h", "t", "m", "l">>, <<"o", "u", "t", "/">>, <<"o", "l", "d", "/", "p", ".", "h", "t", "m", "l">>,
      <<"o", "l", "d", "/", "d">>, <<"f", "/", "p", ".", "h", "t", "m", "l">>, <<"f", "/", "s", "/", "p", ".", "h", "t", "m", "l">>, <<"f">>,
      <<>>, <<"a", "/", "b", "/", "c", ".", "h", "t", "m", "l">>, Path_t_html,
      <<"n", "e", "w", "/", ".">> }

\* a site: pages at two levels, a file that is no page, static files, and
\* output of an earlier run
Site_pages ==
    { Entry(<<Str_content>>, "dir", <<>>),
      Entry(<<Str_content, <<"i", "n", "d", "e", "x", ".", "m", "d">>>>, "file", Doc_Hi),
      Entry(<<Str_content, <<"n", "o", "t", "e", "s", ".", "t", "x", "t">>>>, "file", <<"n">>),
      Entry(<<Str_content, <<"b", "l", "o", "g">>>>, "dir", <<>>),
      Entry(<<Str_content, <<"b", "l", "o", "g">>, <<"p", "o", "s", "t", ".", "m", "d">>>>, "file", Doc_title_and_root_link),
      Entry(<<Str_template_html>>, "file", Tmpl_title_content),
      Entry(<<Str_static>>, "dir", <<>>),
      Entry(<<Str_static, <<"s", ".", "c", "s", "s">>>>, "file", <<"c">>),
      Entry(<<Str_static, <<"i", "m", "g">>>>, "dir", <<>>),
      Entry(<<Str_static, <<"i", "m", "g">>, <<"a", ".", "p", "n", "g">>>>, "file", <<"0xFF">>),
      Entry(<<Str_docs>>, "dir", <<>>),
      Entry(<<Str_docs, <<"o", "l", "d", ".", "h", "t", "m", "l">>>>, "file", <<"o">>) }

\* a site with a page without title beside pages with one, no static files
Site_one_fails ==
    { Entry(<<Str_content>>, "dir", <<>>),
      Entry(<<Str_content, <<"a", ".", "m", "d">>>>, "file", <<"x">>),
      Entry(<<Str_content, <<"b", ".", "m", "d">>>>, "file", Doc_Hi),
      Entry(<<Str_content, <<"y">>>>, "dir", <<>>),
      Entry(<<Str_content, <<"y">>, <<"c", ".", "m", "d">>>>, "file", Doc_Hi),
      Entry(<<Str_content, <<"z">>>>, "dir", <<>>),
      Entry(<<Str_content, <<"z">>, <<"d", ".", "m", "d">>>>, "file", Doc_h2_Hi),
      Entry(<<Str_template_html>>, "file", Tmpl_title_only) }

\* names that are nothing but an extension, with two dots, with the
\* extension in capitals, a directory named as a page, and a page whose
\* output goes where a directory has to be made
Site_names ==
    { Entry(<<Str_content>>, "dir", <<>>),
      Entry(<<Str_content, Str_md>>, "file", Doc_Hi),
      Entry(<<Str_content, <<"a", ".", "b", ".", "m", "d">>>>, "file", Doc_Hi),
      Entry(<<Str_content, <<"d", ".", "m", "d">>>>, "dir", <<>>),
      Entry(<<Str_content, <<"d", ".", "m", "d">>, <<"x", ".", "M", "D">>>>, "file", Doc_Hi),
      Entry(<<Str_content, <<"d", ".", "m", "d">>, <<".", ".", "m", "d">>>>, "file", Doc_Hi),
      Entry(<<Str_content, <<"a", ".", "b", ".", "h", "t", "m", "l">>>>, "dir", <<>>),
      Entry(<<Str_content, <<"a", ".", "b", ".", "h", "t", "m", "l">>, <<"e", ".", "m", "d">>>>, "file", Doc_Hi),
      Entry(<<Str_content, <<"d", ".", "m", "d">>, <<"m", "d">>>>, "file", Doc_Hi),
      Entry(<<Str_template_html>>, "file", Tmpl_title_only) }

\* docs, static and content are files
Site_files ==
    { Entry(<<Str_content>>, "file", Doc_Hi),
      Entry(<<Str_static>>, "file", <<"c">>),
      Entry(<<Str_docs>>, "file", <<"o">>),
      Entry(<<Str_template_html>>, "file", Tmpl_title_only) }

Sites == { Site_pages, Site_one_fails, Site_names, Site_files, {} }

\* sys.argv: no argument, a base path with and without the final '/', an
\* empty one, two arguments, and no program name
Argvs ==
    { <<>>, <<<<"m", "a", "i", "n", ".", "p", "y">>>>, <<<<"m", "a", "i", "n", ".", "p", "y">>, <<"/", "b">>>>,
      <<<<"m", "a", "i", "n", ".", "p", "y">>, <<"/", "b", "/">>>>, <<<<"m", "a", "i", "n", ".", "p", "y">>, <<>>>>,
      <<<<"m", "a", "i", "n", ".", "p", "y">>, <<"b">>, <<"c">>>> }

\* arguments of clear_and_copy_directory: directories, files, paths that
\* name nothing, that end with '/' or with '.', that lie below a file, the
\* empty path
CopyPaths ==
    { <<Str_static, Str_docs>>, <<Str_static \o <<"/">>, Str_docs \o <<"/">>>>,
      <<<<"m", "i", "s", "s", "i", "n", "g">>, Str_docs>>, <<Str_static, <<"n", "e", "w", "/", "d", "o", "c", "s">>>>,
      <<Str_static, Str_template_html \o <<"/">> \o Str_docs>>,
      <<<<"m", "i", "s", "s", "i", "n", "g">>, Str_template_html \o <<"/">> \o Str_docs>>,
      <<Str_static, Str_template_html>>, <<Str_template_html, Str_docs>>,
      <<Str_static, <<>>>>, <<<<>>, <<>>>>, <<Str_static, Str_static>>,
      <<Str_static, Str_docs \o <<"/", ".">>>> }

\* arguments of generate_pages_recursive
ContentPaths == { Str_content, Str_content \o <<"/">>, <<"m", "i", "s", "s", "i", "n", "g">>, Str_template_html }
SiteTemplatePaths == { Str_template_html, <<"m", "i", "s", "s", "i", "n", "g", ".", "h", "t", "m", "l">>, Str_static }
DestDirPaths == { Str_docs, Str_docs \o <<"/">>, <<>>, Str_template_html }

\* no function of main.py has printed, read or returned anything
PageStart ==
    /\ NodeIdle /\ TokIdle /\ BlkIdle /\ DocIdle
    /\ stdout = <<>>
    /\ site_res = NoCall
    /\ walk_dirs = <<>>
    /\ root = <<>>
    /\ files = {}
    /\ template = <<>>
    /\ title_res = NoCall
    /\ final_html = None
    /\ page_res = NoCall

\* generate_page(from_path, template_path, dest_path, basepath) is called
InitGeneratePage ==
    /\ entry = "generate_page"
    /\ argv = <<>>
    /\ site_pc = "idle"
    /\ src = <<>>
    /\ dst = <<>>
    /\ dir_path_content = <<>>
    /\ dest_dir_path = <<>>
    /\ page_pc = "read_markdown"
    /\ \/ /\ \E d \in PageDocs, t \in Templates : fs = PageFs(d, t)
          /\ basepath \in Basepaths
          /\ from_path = Path_in_md
          /\ template_path = Path_t_html
          /\ dest_path = Path_out_p_html
       \/ /\ \E d \in VariantDocs : fs = VariantFs(d)
          /\ basepath \in {<<"/">>, Base_surrogate, Base_surrogates}
          /\ from_path \in FromPaths
          /\ template_path \in TemplatePaths
          /\ dest_path \in DestPaths

\* clear_and_copy_directory(src, dst) is called
InitClearAndCopyDirectory ==
    /\ entry = "clear_and_copy_directory"
    /\ argv = <<>>
    /\ site_pc = "clear"
    /\ fs \in Sites
    /\ \E p \in CopyPaths : src = p[1] /\ dst = p[2]
    /\ dir_path_content = <<>>
    /\ dest_dir_path = <<>>
    /\ from_path = <<>>
    /\ template_path = <<>>
    /\ dest_path = <<>>
    /\ basepath = <<>>
    /\ page_pc = "idle"

\* generate_pages_recursive(dir_path_content, template_path, dest_dir_path,
\* basepath) is called
InitGeneratePagesRecursive ==
    /\ entry = "generate_pages_recursive"
    /\ argv = <<>>
    /\ site_pc = "check"
    /\ fs \in Sites
    /\ src = <<>>
    /\ dst = <<>>
    /\ dir_path_content \in ContentPaths
    /\ template_path \in SiteTemplatePaths
    /\ dest_dir_path \in DestDirPaths
    /\ basepath \in Basepaths
    /\ from_path = <<>>
    /\ dest_path = <<>>
    /\ page_pc = "idle"

\* main() is called
InitMain ==
    /\ entry = "main"
    /\ argv \in Argvs
    /\ site_pc = "main"
    /\ fs \in Sites
    /\ src = <<>>
    /\ dst = <<>>
    /\ dir_path_content = <<>>
    /\ dest_dir_path = <<>>
    /\ from_path = <<>>
    /\ template_path = <<>>
    /\ dest_path = <<>>
    /\ basepath = <<>>
    /\ page_pc = "idle"

PageInit ==
    /\ PageStart
    /\ InitGeneratePage \/ InitClearAndCopyDirectory \/ InitGeneratePagesRecursive \/ InitMain

\* main up to its call of clear_and_copy_directory: basepath is the first
\* argument, '/' without one, and ends with '/'
Main ==
    /\ site_pc = "main"
    /\ basepath' = LET given == IF Len(argv) > 1 THEN argv[2] ELSE <<"/">>
                   IN  IF endswith(given, <<"/">>) THEN given ELSE given \o <<"/">>
    /\ src' = Str_static
    /\ dst' = Str_docs
    /\ site_pc' = "clear"
    /\ UNCHANGED <<fs, stdout, entry, argv, site_res, dir_path_content,
                  dest_dir_path, walk_dirs, root, files, from_path,
                  template_path, dest_path, template, page_pc, title_res,
                  final_html, page_res, doc_vars, node_vars, tok_vars,
                  blk_vars>>

\* if os.path.exists(dst): shutil.rmtree(dst)
ClearDirectory ==
    /\ site_pc = "clear"
    /\ IF os_path_exists(fs, dst)
       THEN /\ fs' = shutil_rmtree(fs, dst)[2]
            /\ IF Raised(shutil_rmtree(fs, dst)[1])
               THEN site_pc' = "raised" /\ site_res' = shutil_rmtree(fs, dst)[1]
               ELSE site_pc' = "copy" /\ UNCHANGED site_res
       ELSE site_pc' = "copy" /\ UNCHANGED <<fs, site_res>>
    /\ UNCHANGED <<stdout, entry, argv, src, dst, dir_path_content,
                  dest_dir_path, walk_dirs, root, files, from_path,
                  template_path, dest_path, basepath, template, page_pc,
                  title_res, final_html, page_res, doc_vars, node_vars,
                  tok_vars, blk_vars>>

\* what clear_and_copy_directory does to the file system once dst is gone:
\* src is copied, or the warning is printed and dst is made empty
copy_or_make(fsys, source, dest) ==
    IF os_path_exists(fsys, source)
    THEN shutil_copytree(fsys, source, dest)
    ELSE os_makedirs(fsys, dest, TRUE)

\* the rest of clear_and_copy_directory; main goes on when it returns
CopyDirectory ==
    /\ site_pc = "copy"
    /\ stdout' = IF os_path_exists(fs, src) THEN stdout
                 ELSE Append(stdout, <<"Warning: ", src,
                                       " directory not found, creating empty ", dst>>)
    /\ fs' = copy_or_make(fs, src, dst)[2]
    /\ IF Raised(copy_or_make(fs, src, dst)[1])
       THEN site_pc' = "raised" /\ site_res' = copy_or_make(fs, src, dst)[1]
       ELSE IF entry = "main"
       THEN site_pc' = "generate" /\ UNCHANGED site_res
       ELSE site_pc' = "returned" /\ site_res' = Ok(None)
    /\ UNCHANGED <<entry, argv, src, dst, dir_path_content, dest_dir_path,
                  walk_dirs, root, files, from_path, template_path,
                  dest_path, basepath, template, page_pc, title_res,
                  final_html, page_res, doc_vars, node_vars, tok_vars,
                  blk_vars>>

\* main calls generate_pages_recursive('content', 'template.html', 'docs',
\* basepath)
MainGenerate ==
    /\ site_pc = "generate"
    /\ dir_path_content' = Str_content
    /\ template_path' = Str_template_html
    /\ dest_dir_path' = Str_docs
    /\ site_pc' = "check"
    /\ UNCHANGED <<fs, stdout, entry, argv, site_res, src, dst, walk_dirs,
                  root, files, from_path, dest_path, basepath, template,
                  page_pc, title_res, final_html, page_res, doc_vars,
                  node_vars, tok_vars, blk_vars>>

\* generate_pages_recursive returns with a warning when the content
\* directory or the template is not there, and starts the walk otherwise
CheckPaths ==
    /\ site_pc = "check"
    /\ IF ~os_path_exists(fs, dir_path_content)
       THEN /\ stdout' = Append(stdout, <<"Warning: Content directory ", dir_path_content,
                                          " not found">>)
            /\ site_pc' = "returned"
            /\ site_res' = Ok(None)
            /\ UNCHANGED walk_dirs
       ELSE IF ~os_path_exists(fs, template_path)
       THEN /\ stdout' = Append(stdout, <<"Warning: Template file ", template_path,
                                          " not found">>)
            /\ site_pc' = "returned"
            /\ site_res' = Ok(None)
            /\ UNCHANGED walk_dirs
       ELSE /\ walk_dirs' = <<dir_path_content>>
            /\ site_pc' = "walk"
            /\ UNCHANGED <<stdout, site_res>>
    /\ UNCHANGED <<fs, entry, argv, src, dst, dir_path_content, dest_dir_path,
                  root, files, from_path, template_path, dest_path, basepath,
                  template, page_pc, title_res, final_html, page_res,
                  doc_vars, node_vars, tok_vars, blk_vars>>

\* os.walk goes to the next directory and lists it: its files are to be
\* seen, its directories come next, in the order the listing has; what is no
\* directory is passed over
WalkDirectory ==
    /\ site_pc = "walk"
    /\ page_pc \in {"idle", "end"}
    /\ files = {}
    /\ walk_dirs # <<>>
    /\ IF os_path_isdir(fs, walk_dirs[1])
       THEN /\ root' = walk_dirs[1]
            /\ files' = FilesIn(fs, Names(walk_dirs[1]))
            /\ \E dirs \in Orders(DirsIn(fs, Names(walk_dirs[1]))) :
                   walk_dirs' = [i \in 1..Len(dirs) |-> os_path_join(walk_dirs[1], dirs[i])]
                                \o Tail(walk_dirs)
       ELSE /\ walk_dirs' = Tail(walk_dirs)
            /\ UNCHANGED <<root, files>>
    /\ UNCHANGED <<fs, stdout, entry, argv, site_pc, site_res, src, dst,
                  dir_path_content, dest_dir_path, from_path, template_path,
                  dest_path, basepath, template, page_pc, title_res,
                  final_html, page_res, doc_vars, node_vars, tok_vars,
                  blk_vars>>

\* the walk is over and generate_pages_recursive returns, and main with it
WalkReturns ==
    /\ site_pc = "walk"
    /\ page_pc \in {"idle", "end"}
    /\ files = {}
    /\ walk_dirs = <<>>
    /\ site_pc' = "returned"
    /\ site_res' = Ok(None)
    /\ UNCHANGED <<fs, stdout, entry, argv, src, dst, dir_path_content,
                  dest_dir_path, walk_dirs, root, files, from_path,
                  template_path, dest_path, basepath, template, page_pc,
                  title_res, final_html, page_res, doc_vars, node_vars,
                  tok_vars, blk_vars>>

\* the path of the page of a Markdown file
page_path(dest, content, from) ==
    os_path_join(dest, os_path_splitext(os_path_relpath(from, content))[1] \o Str_html)

\* one turn of the loop over the files of a directory, in the order the
\* listing has: generate_page is called for a name that ends with '.md'
NextFile ==
    /\ site_pc = "walk"
    /\ page_pc \in {"idle", "end"}
    /\ \E filename \in files :
           /\ files' = files \ {filename}
           /\ IF endswith(filename, Str_md)
              THEN /\ from_path' = os_path_join(root, filename)
                   /\ dest_path' = page_path(dest_dir_path, dir_path_content,
                                             os_path_join(root, filename))
                   /\ page_pc' = "read_markdown"
                   /\ template' = <<>>
                   /\ title_res' = NoCall
                   /\ final_html' = None
                   /\ page_res' = NoCall
                   /\ markdown' = <<>>
                   /\ blocks' = <<>>
                   /\ block_nodes' = <<>>
                   /\ doc_pc' = "idle"
                   /\ doc_res' = NoCall
                   /\ html_res' = NoCall
              ELSE UNCHANGED <<from_path, dest_path, page_pc, template, title_res, final_html,
                               page_res, doc_vars>>
    /\ UNCHANGED <<fs, stdout, entry, argv, site_pc, site_res, src, dst,
                  dir_path_content, dest_dir_path, walk_dirs, root,
                  template_path, basepath, node_vars, tok_vars, blk_vars>>

\* an exception of generate_page leaves generate_pages_recursive, and main
GeneratePageRaises ==
    /\ site_pc = "walk"
    /\ page_pc = "raised"
    /\ site_pc' = "raised"
    /\ site_res' = page_res
    /\ UNCHANGED <<fs, stdout, entry, argv, src, dst, dir_path_content,
                  dest_dir_path, walk_dirs, root, files, from_path,
                  template_path, dest_path, basepath, template, page_pc,
                  title_res, final_html, page_res, doc_vars, node_vars,
                  tok_vars, blk_vars>>

\* generate_page prints what it does and reads the Markdown file
ReadMarkdown ==
    /\ page_pc = "read_markdown"
    /\ stdout' = Append(stdout, <<"Generating page from ", from_path, " to ", dest_path,
                                  " using ", template_path>>)
    /\ IF Raised(read_text(fs, from_path))
       THEN page_pc' = "raised" /\ page_res' = read_text(fs, from_path) /\ UNCHANGED markdown
       ELSE /\ markdown' = Value(read_text(fs, from_path))
            /\ page_pc' = "read_template"
            /\ UNCHANGED page_res
    /\ UNCHANGED <<fs, entry, argv, site_pc, site_res, src, dst,
                  dir_path_content, dest_dir_path, walk_dirs, root, files,
                  from_path, template_path, dest_path, basepath, template,
                  title_res, final_html, blocks, block_nodes, doc_pc,
                  doc_res, html_res, node_vars, tok_vars, blk_vars>>

\* generate_page reads the template file and calls markdown_to_html_node
ReadTemplate ==
    /\ page_pc = "read_template"
    /\ IF Raised(read_text(fs, template_path))
       THEN /\ page_pc' = "raised"
            /\ page_res' = read_text(fs, template_path)
            /\ UNCHANGED <<template, doc_pc>>
       ELSE /\ template' = Value(read_text(fs, template_path))
            /\ page_pc' = "convert"
            /\ doc_pc' = "start"
            /\ UNCHANGED page_res
    /\ UNCHANGED <<fs, stdout, entry, argv, site_pc, site_res, src, dst,
                  dir_path_content, dest_dir_path, walk_dirs, root, files,
                  from_path, template_path, dest_path, basepath, title_res,
                  final_html, markdown, blocks, block_nodes, doc_res,
                  html_res, node_vars, tok_vars, blk_vars>>

\* an exception of markdown_to_html_node(markdown).to_html() leaves
\* generate_page
ConversionRaises ==
    /\ page_pc = "convert"
    /\ IF doc_pc = "done" THEN Raised(doc_res) ELSE doc_pc = "rendered" /\ Raised(html_res)
    /\ page_res' = IF doc_pc = "done" THEN doc_res ELSE html_res
    /\ page_pc' = "raised"
    /\ UNCHANGED <<fs, stdout, entry, argv, site_pc, site_res, src, dst,
                  dir_path_content, dest_dir_path, walk_dirs, root, files,
                  from_path, template_path, dest_path, basepath, template,
                  title_res, final_html, doc_vars, node_vars, tok_vars,
                  blk_vars>>

\* title = extract_title(markdown)
ExtractTitle ==
    /\ page_pc = "convert"
    /\ doc_pc = "rendered"
    /\ ~Raised(html_res)
    /\ title_res' = extract_title(markdown)
    /\ IF Raised(extract_title(markdown))
       THEN page_pc' = "raised" /\ page_res' = extract_title(markdown)
       ELSE page_pc' = "fill" /\ UNCHANGED page_res
    /\ UNCHANGED <<fs, stdout, entry, argv, site_pc, site_res, src, dst,
                  dir_path_content, dest_dir_path, walk_dirs, root, files,
                  from_path, template_path, dest_path, basepath, template,
                  final_html, doc_vars, node_vars, tok_vars, blk_vars>>

\* final_html = template with the placeholders and the roots replaced
FillTemplate ==
    /\ page_pc = "fill"
    /\ final_html' = fill_template(template, Value(title_res), Value(html_res), basepath)
    /\ page_pc' = "mkdir"
    /\ UNCHANGED <<fs, stdout, entry, argv, site_pc, site_res, src, dst,
                  dir_path_content, dest_dir_path, walk_dirs, root, files,
                  from_path, template_path, dest_path, basepath, template,
                  title_res, page_res, doc_vars, node_vars, tok_vars,
                  blk_vars>>

\* the directory made as soon as the document is rendered, before the title
\* is extracted
MakeDirs_before_title ==
    /\ page_pc = "convert"
    /\ doc_pc = "rendered"
    /\ fs' = os_makedirs(fs, os_path_dirname(dest_path), TRUE)[2]
    /\ fs' # fs
    /\ UNCHANGED <<stdout, entry, argv, site_pc, site_res, src, dst,
                  dir_path_content, dest_dir_path, walk_dirs, root, files,
                  from_path, template_path, dest_path, basepath, template,
                  page_pc, title_res, final_html, page_res, doc_vars,
                  node_vars, tok_vars, blk_vars>>

\* os.makedirs(os.path.dirname(dest_path), exist_ok=True)
MakeDirs ==
    /\ page_pc = "mkdir"
    /\ fs' = os_makedirs(fs, os_path_dirname(dest_path), TRUE)[2]
    /\ IF Raised(os_makedirs(fs, os_path_dirname(dest_path), TRUE)[1])
       THEN /\ page_pc' = "raised"
            /\ page_res' = os_makedirs(fs, os_path_dirname(dest_path), TRUE)[1]
       ELSE page_pc' = "open" /\ UNCHANGED page_res
    /\ UNCHANGED <<stdout, entry, argv, site_pc, site_res, src, dst,
                  dir_path_content, dest_dir_path, walk_dirs, root, files,
                  from_path, template_path, dest_path, basepath, template,
                  title_res, final_html, doc_vars, node_vars, tok_vars,
                  blk_vars>>

\* open(dest_path, 'w', encoding='utf-8'): the file is there and empty
OpenFile ==
    /\ page_pc = "open"
    /\ fs' = open_w(fs, dest_path)[2]
    /\ IF Raised(open_w(fs, dest_path)[1])
       THEN page_pc' = "raised" /\ page_res' = open_w(fs, dest_path)[1]
       ELSE page_pc' = "write" /\ UNCHANGED page_res
    /\ UNCHANGED <<stdout, entry, argv, site_pc, site_res, src, dst,
                  dir_path_content, dest_dir_path, walk_dirs, root, files,
                  from_path, template_path, dest_path, basepath, template,
                  title_res, final_html, doc_vars, node_vars, tok_vars,
                  blk_vars>>

\* f.write(final_html); the file is closed and generate_page returns None
WriteFile ==
    /\ page_pc = "write"
    /\ fs' = write_text(fs, dest_path, final_html)[2]
    /\ IF Raised(write_text(fs, dest_path, final_html)[1])
       THEN page_pc' = "raised" /\ page_res' = write_text(fs, dest_path, final_html)[1]
       ELSE page_pc' = "end" /\ page_res' = Ok(None)
    /\ UNCHANGED <<stdout, entry, argv, site_pc, site_res, src, dst,
                  dir_path_content, dest_dir_path, walk_dirs, root, files,
                  from_path, template_path, dest_path, basepath, template,
                  title_res, final_html, doc_vars, node_vars, tok_vars,
                  blk_vars>>

PageNext ==
    \/ Main
    \/ ClearDirectory
    \/ CopyDirectory
    \/ MainGenerate
    \/ CheckPaths
    \/ WalkDirectory
    \/ WalkReturns
    \/ NextFile
    \/ GeneratePageRaises
    \/ ReadMarkdown
    \/ ReadTemplate
    \/ SplitBlocks
    \/ BuildBlock
    \/ ReturnDocument
    \/ RenderDocument
    \/ ConversionRaises
    \/ ExtractTitle
    \/ FillTemplate
    \/ MakeDirs
    \/ OpenFile
    \/ WriteFile

SpecPage == PageInit /\ [][PageNext]_vars

-----------------------------------------------------------------------------
(* Properties of generate_page *)

\* the conversion, the rendering or the title extraction raised
StepFailed == Raised(doc_res) \/ Raised(html_res) \/ Raised(title_res)

\* the exception that left the step that failed
StepError ==
    IF Raised(doc_res) THEN doc_res ELSE IF Raised(html_res) THEN html_res ELSE title_res

\* what a step of generate_page must leave alone: before the page is made
\* (the two files read, the document converted and rendered, the title
\* extracted, the template filled) and after an exception, the file system
\* stays as it is; and a step of generate_page that changes it finds the
\* document converted and rendered and its title extracted
NoOutputBeforeThePage ==
    /\ page_pc \in {"read_markdown", "read_template", "convert", "fill", "raised"}
       => fs' = fs
    /\ (fs' # fs /\ page_pc \notin {"idle", "end"})
       => /\ page_pc \in {"mkdir", "open", "write"}
          /\ doc_pc = "rendered" /\ ~Raised(doc_res) /\ ~Raised(html_res)
          /\ title_res = extract_title(markdown) /\ ~Raised(title_res)
          /\ html_res = Then(markdown_to_html_node(markdown), to_html)

\* a failed step is where generate_page ends, with the exception of the step
\* as its outcome, and as the outcome of the function that called it
FailureLeavesGeneratePage ==
    StepFailed
    => /\ final_html = None
       /\ page_pc \in {"convert", "raised"}
       /\ page_pc = "raised" => page_res = StepError
       /\ site_pc \in {"idle", "walk", "raised"}
       /\ site_pc = "raised" => site_res = StepError

\* C26: when markdown_to_html_node, to_html or extract_title raises for a
\* document, generate_page goes no further: the exception is what leaves
\* generate_page and the function that called it, and the call for that
\* document makes no directory and writes no file, the file system staying
\* as the call found it; generate_page changes the file system only after
\* the document was converted and rendered and its title extracted.
C26_NoPartialOutput ==
    []FailureLeavesGeneratePage /\ [][NoOutputBeforeThePage]_vars

\* the document was converted and rendered, its title was not found, and
\* generate_page was left by that error with no directory made for the page
C26_Witness ==
    /\ page_pc = "raised"
    /\ doc_pc = "rendered"
    /\ ~Raised(html_res)
    /\ page_res = Raise(<<"No h1 header found in Markdown">>)
    /\ lookup(fs, os_path_dirname(dest_path)) = "absent"
    /\ lookup(fs, dest_path) = "ENOENT"

\* tmpl read once from left to right, each {{ Title }} giving title and
\* each {{ Content }} giving content, what is put in not read again
RECURSIVE Substituted(_, _, _)
Substituted(tmpl, title, content) ==
    IF Len(tmpl) = 0 THEN <<>>
    ELSE IF startswith(tmpl, Str_Title)
    THEN title \o Substituted(SubSeq(tmpl, Len(Str_Title) + 1, Len(tmpl)), title, content)
    ELSE IF startswith(tmpl, Str_Content)
    THEN content \o Substituted(SubSeq(tmpl, Len(Str_Content) + 1, Len(tmpl)), title,
                                content)
    ELSE <<tmpl[1]>> \o Substituted(Tail(tmpl), title, content)

\* C27: the page is the template with every {{ Title }} replaced by the
\* title and every {{ Content }} by the rendered document, as literal text:
\* what is put in stands in the page as it is and is not searched for
\* placeholders.  Stated for the base path "/", which rewrites nothing.
C27_PageIsTemplateFilled ==
    (page_pc \in {"mkdir", "open", "write", "end"} /\ basepath = <<"/">>)
    => /\ final_html = Substituted(template, Value(title_res), Value(html_res))
       /\ page_pc = "end" => /\ lookup(fs, dest_path) = "file"
                              /\ Content(fs, Names(dest_path)) = final_html

====
